---------------------------- MODULE Spec2Model ----------------------------
(***************************************************************************)
(* Block linear tiling (tegra_swizzle): the single-mip transform, the      *)
(* surface driver, the size functions and the validation, as state         *)
(* machines of one call (and of the swizzle -> deswizzle call pairs of the *)
(* tests and the fuzz target).                                             *)
(*                                                                         *)
(* Integer widths.  The surface functions take u32 arguments and the       *)
(* helpers they call on them (div_round_up, round_up, width_in_gobs,       *)
(* height_in_blocks, block_height_mip0, block_depth, mip_block_depth) are  *)
(* therefore u32 arithmetic.  TLC's integers stop at 2^31 - 1, so the u32  *)
(* word is modelled as a WordBits-bit unsigned word: U32_MAX is            *)
(* 2^WordBits - 1 and every u32 operation wraps (or is flagged) at         *)
(* 2^WordBits.  usize values (byte counts and offsets) are unbounded.      *)
(* Arithmetic overflow panics when the build has overflow checks and wraps *)
(* otherwise; the build is the variable overflow_checks.                   *)
(***************************************************************************)
EXTENDS Integers, Sequences, FiniteSets, TLC

\* ------------------------------------------------------------------ bounds
WordBits == 16
MaxWidth == 7
MaxHeight == 11
MaxDepth == 3
MaxMips == 3
MaxLayers == 2
MaxBlockRows == 180
MaxDim == 40
MaxBlock == 5
MaxGobsX == 3
MaxGobsY == 3
MaxAddressDepth == 11
MaxLayerGobs == 4

\* ------------------------------------------------------- program constants
GOB_WIDTH_IN_BYTES == 64
GOB_HEIGHT_IN_BYTES == 8
GOB_SIZE_IN_BYTES == GOB_WIDTH_IN_BYTES * GOB_HEIGHT_IN_BYTES
GOB_ROW_OFFSETS == <<0, 16, 64, 80, 128, 144, 192, 208>>
U32_BITS == 32

U32_MAX == 2^WordBits - 1
U32_MOD == 2^WordBits

BlockHeight == {1, 2, 4, 8, 16, 32}

\* BlockHeight::new: the variant for a listed value, 0 (None) otherwise.
BlockHeight_new(value) == IF value \in BlockHeight THEN value ELSE 0

Max2(a, b) == IF a >= b THEN a ELSE b

\* ------------------------------------------------------------ u32 helpers
\* x >> n on a word (n < U32_BITS).
Shr(x, n) == IF n >= WordBits THEN 0 ELSE x \div (2^n)

\* wrapping u32 addition / subtraction
WAdd(a, b) == (a + b) % U32_MOD
WSub(a, b) == (a - b + U32_MOD) % U32_MOD

div_round_up(x, d) == WSub(WAdd(x, d), 1) \div d
div_round_up_overflows(x, d) == (x + d > U32_MAX) \/ (x + d < 1)

round_up(x, n) == (div_round_up(x, n) * n) % U32_MOD
round_up_overflows(x, n) ==
    div_round_up_overflows(x, n) \/ div_round_up(x, n) * n > U32_MAX

width_in_gobs(width, bytes_per_pixel) ==
    div_round_up((width * bytes_per_pixel) % U32_MOD, GOB_WIDTH_IN_BYTES)
width_in_gobs_overflows(width, bytes_per_pixel) ==
    \/ width * bytes_per_pixel > U32_MAX
    \/ div_round_up_overflows(width * bytes_per_pixel, GOB_WIDTH_IN_BYTES)

height_in_blocks(height, block_height) ==
    div_round_up(height, block_height * GOB_HEIGHT_IN_BYTES)
height_in_blocks_overflows(height, block_height) ==
    div_round_up_overflows(height, block_height * GOB_HEIGHT_IN_BYTES)

\* block_height_mip0 that goes on to ThirtyTwo for 256 rows and a half.
block_height_mip0_up_to_32(height) ==
    IF WAdd(height, height \div 2) >= 256 THEN 32
    ELSE IF WAdd(height, height \div 2) >= 128 THEN 16
    ELSE IF WAdd(height, height \div 2) >= 64 THEN 8
    ELSE IF WAdd(height, height \div 2) >= 32 THEN 4
    ELSE IF WAdd(height, height \div 2) >= 16 THEN 2
    ELSE 1

block_height_mip0(height) ==
    LET height_and_half == WAdd(height, height \div 2)
    IN  IF height_and_half >= 128 THEN 16
        ELSE IF height_and_half >= 64 THEN 8
        ELSE IF height_and_half >= 32 THEN 4
        ELSE IF height_and_half >= 16 THEN 2
        ELSE 1
block_height_mip0_overflows(height) == height + (height \div 2) > U32_MAX

\* The halving loop of mip_block_height with < in place of <=.
RECURSIVE HalveHeight_below(_, _)
HalveHeight_below(mip_height, block_height) ==
    IF mip_height < (block_height \div 2) * 8 /\ block_height > 1
    THEN HalveHeight_below(mip_height, block_height \div 2)
    ELSE block_height

RECURSIVE HalveHeight(_, _)
HalveHeight(mip_height, block_height) ==
    IF mip_height <= (block_height \div 2) * 8 /\ block_height > 1
    THEN HalveHeight(mip_height, block_height \div 2)
    ELSE block_height

\* mip_block_height that keeps the block height of mip 0 for every mip level.
mip_block_height_of_mip0(mip_height, bh_mip0) == BlockHeight_new(bh_mip0)

mip_block_height(mip_height, bh_mip0) ==
    BlockHeight_new(HalveHeight(mip_height, bh_mip0))

\* block_depth that takes the depth itself, up to 16.
block_depth_of_the_depth(depth) == IF depth >= 16 THEN 16 ELSE Max2(depth, 1)

block_depth(depth) ==
    LET depth_and_half == WAdd(depth, depth \div 2)
    IN  IF depth_and_half >= 16 THEN 16
        ELSE IF depth_and_half >= 8 THEN 8
        ELSE IF depth_and_half >= 4 THEN 4
        ELSE IF depth_and_half >= 2 THEN 2
        ELSE 1
block_depth_overflows(depth) == depth + (depth \div 2) > U32_MAX

RECURSIVE mip_block_depth(_, _)
mip_block_depth(mip_depth, gob_depth) ==
    IF mip_depth <= gob_depth \div 2 /\ gob_depth > 1
    THEN mip_block_depth(mip_depth, gob_depth \div 2)
    ELSE gob_depth


\* ---------------------------------------------------------------- buffers
\* A byte buffer is its length, the bytes that were stored into it (data, a
\* function on the offsets written) and the value of every other offset
\* (fill): vec![0u8; n] is ZeroVec(n); a caller's n input bytes are
\* Input(n), byte i being Pattern(i).
Pattern(i) == (i % 251) + 1

ZeroVec(n) == [len |-> n, data |-> <<>>, fill |-> "zero"]
Input(n) == [len |-> n, data |-> <<>>, fill |-> "pattern"]

Get(buf, i) ==
    IF i \in DOMAIN buf.data THEN buf.data[i]
    ELSE IF buf.fill = "pattern" THEN Pattern(i) ELSE 0

\* Two buffers hold the same bytes.
BufEq(a, b) == a.len = b.len /\ \A i \in 0 .. a.len - 1 : Get(a, i) = Get(b, i)

\* ----------------------------------------------------------- address math
slice_size(block_height, block_depth_, width_in_gobs_, height) ==
    LET rob_size == GOB_SIZE_IN_BYTES * block_height * block_depth_ * width_in_gobs_
    IN  div_round_up(height, block_height * GOB_HEIGHT_IN_BYTES) * rob_size

\* z & (block_depth - 1), bit by bit
RECURSIVE BitAnd(_, _)
BitAnd(a, b) ==
    IF a = 0 \/ b = 0 THEN 0
    ELSE (a % 2) * (b % 2) + 2 * BitAnd(a \div 2, b \div 2)

\* gob_address_z that masks the slice with the block depth itself.
gob_address_z_masking_block_depth(z, block_height, block_depth_, slice_size_) ==
    ((z \div block_depth_) * slice_size_)
        + (BitAnd(z, block_depth_) * GOB_SIZE_IN_BYTES * block_height)

gob_address_z(z, block_height, block_depth_, slice_size_) ==
    ((z \div block_depth_) * slice_size_)
        + (BitAnd(z, block_depth_ - 1) * GOB_SIZE_IN_BYTES * block_height)

\* gob_address_y that places the GOB rows of a block a row of bytes apart.
gob_address_y_with_rows_of_bytes(y, block_height_in_bytes, block_size_in_bytes, image_width_in_gobs) ==
    LET block_y == y \div block_height_in_bytes
        block_inner_row == (y % block_height_in_bytes) \div GOB_HEIGHT_IN_BYTES
    IN  block_y * block_size_in_bytes * image_width_in_gobs
            + block_inner_row * GOB_WIDTH_IN_BYTES

gob_address_y(y, block_height_in_bytes, block_size_in_bytes, image_width_in_gobs) ==
    LET block_y == y \div block_height_in_bytes
        block_inner_row == (y % block_height_in_bytes) \div GOB_HEIGHT_IN_BYTES
    IN  block_y * block_size_in_bytes * image_width_in_gobs
            + block_inner_row * GOB_SIZE_IN_BYTES

gob_address_x(x, block_size_in_bytes) ==
    LET block_x == x \div GOB_WIDTH_IN_BYTES
    IN  block_x * block_size_in_bytes

\* gob_offset without the low row bit: two rows of a GOB share their bytes.
gob_offset_without_row_bit(x, y) ==
    ((x % 64) \div 32) * 256 + ((y % 8) \div 2) * 64 + ((x % 32) \div 16) * 32 + (x % 16)

gob_offset(x, y) ==
    ((x % 64) \div 32) * 256 + ((y % 8) \div 2) * 64 + ((x % 32) \div 16) * 32
        + (y % 2) * 16 + (x % 16)

\* ------------------------------------------------------ single-mip transform
\* One copy of n bytes between the linear side (offset lin) and the tiled
\* side (offset swz); the direction flag decides which side is written.
Copy(lin, swz, n) == [lin |-> lin, swz |-> swz, n |-> n]

\* gob_row with the second and third 16 bytes of the row exchanged.
gob_row_with_halves_in_order(lin, swz) ==
    << Copy(lin + 48, swz + 288, 16), Copy(lin + 32, swz + 32, 16),
       Copy(lin + 16, swz + 256, 16), Copy(lin, swz, 16) >>

\* deswizzle_gob_row / swizzle_gob_row: the four 16 byte copies of one row of
\* a complete GOB, largest offset first.
gob_row(lin, swz) ==
    << Copy(lin + 48, swz + 288, 16), Copy(lin + 32, swz + 256, 16),
       Copy(lin + 16, swz + 32, 16), Copy(lin, swz, 16) >>

\* complete_gob whose rows start 64 bytes apart in the GOB.
complete_gob_with_rows_in_order(lin, swz, row_size_in_bytes) ==
    [i \in 1 .. GOB_HEIGHT_IN_BYTES |->
        gob_row(lin + row_size_in_bytes * (i - 1), swz + 64 * (i - 1))]

\* deswizzle_complete_gob / swizzle_complete_gob: one gob_row per GOB row.
complete_gob(lin, swz, row_size_in_bytes) ==
    [i \in 1 .. GOB_HEIGHT_IN_BYTES |->
        gob_row(lin + row_size_in_bytes * (i - 1), swz + GOB_ROW_OFFSETS[i])]

\* swizzle_deswizzle_gob: the byte copies of a partially filled GOB, row by
\* row, for the bytes inside the surface.
swizzle_deswizzle_gob(x0, y0, z0, width, height, bytes_per_pixel, gob_address) ==
    [i \in 1 .. GOB_HEIGHT_IN_BYTES |->
        LET y == i - 1
            xs == IF y0 + y < height
                  THEN {x \in 0 .. GOB_WIDTH_IN_BYTES - 1 :
                            x0 + x < width * bytes_per_pixel}
                  ELSE {}
        IN  [j \in 1 .. Cardinality(xs) |->
                LET x == j - 1
                IN  Copy((z0 * width * height * bytes_per_pixel)
                            + ((y0 + y) * width * bytes_per_pixel) + x0 + x,
                         gob_address + gob_offset(x, y), 1)]]

\* fast_path that admits every complete GOB.
fast_path_of_every_complete_gob(x0, y0, width, height, bytes_per_pixel) ==
    /\ x0 + GOB_WIDTH_IN_BYTES <= width * bytes_per_pixel
    /\ y0 + GOB_HEIGHT_IN_BYTES <= height

\* The fast path test of swizzle_inner.
fast_path(x0, y0, width, height, bytes_per_pixel) ==
    /\ x0 + GOB_WIDTH_IN_BYTES < width * bytes_per_pixel
    /\ y0 + GOB_HEIGHT_IN_BYTES < height

\* SrcOf reading the linear side in both directions.
SrcOf_always_linear(deswizzle, c) == c.lin

SrcOf(deswizzle, c) == IF deswizzle THEN c.swz ELSE c.lin
DstOf(deswizzle, c) == IF deswizzle THEN c.lin ELSE c.swz

\* A copy indexes past the end of a slice (the slices start at src_base and
\* dst_base of the buffers): the program panics.
CopyPanics(deswizzle, c, source, src_base, destination, dst_base) ==
    \/ src_base + SrcOf(deswizzle, c) + c.n > source.len
    \/ dst_base + DstOf(deswizzle, c) + c.n > destination.len

\* The destination addresses one copy stores to.
CopyRange(deswizzle, c, dst_base) ==
    (dst_base + DstOf(deswizzle, c)) .. (dst_base + DstOf(deswizzle, c) + c.n - 1)

\* The bytes the copies of one row store, in order: a later copy of the row
\* overwrites an earlier one.
RowBytes(deswizzle, row, source, src_base, dst_base) ==
    LET covers(k, a) == a \in CopyRange(deswizzle, row[k], dst_base)
        stored == UNION {CopyRange(deswizzle, row[k], dst_base) : k \in DOMAIN row}
    IN  [a \in stored |->
            LET k == CHOOSE k \in DOMAIN row :
                        /\ covers(k, a)
                        /\ \A j \in DOMAIN row : covers(j, a) => j <= k
            IN  Get(source, src_base + SrcOf(deswizzle, row[k])
                                + (a - (dst_base + DstOf(deswizzle, row[k]))))]

\* The rows of a GOB, in order.
RECURSIVE ApplyRows(_, _, _, _, _, _, _)
ApplyRows(deswizzle, rows, i, source, src_base, data, dst_base) ==
    IF i > Len(rows) THEN data
    ELSE ApplyRows(deswizzle, rows, i + 1, source, src_base,
                   RowBytes(deswizzle, rows[i], source, src_base, dst_base) @@ data,
                   dst_base)

\* The GOB steps of swizzle_inner in loop order: z0, then y0, then x0.
NumGobsX(width, bytes_per_pixel) ==
    (width * bytes_per_pixel + GOB_WIDTH_IN_BYTES - 1) \div GOB_WIDTH_IN_BYTES
NumGobsY(height) == (height + GOB_HEIGHT_IN_BYTES - 1) \div GOB_HEIGHT_IN_BYTES
NumGobSteps(width, height, depth, bytes_per_pixel) ==
    depth * NumGobsY(height) * NumGobsX(width, bytes_per_pixel)
GobStep(k, width, height, bytes_per_pixel) ==
    LET nx == NumGobsX(width, bytes_per_pixel)
        ny == NumGobsY(height)
    IN  [z0 |-> (k - 1) \div (ny * nx),
         y0 |-> (((k - 1) \div nx) % ny) * GOB_HEIGHT_IN_BYTES,
         x0 |-> ((k - 1) % nx) * GOB_WIDTH_IN_BYTES]

\* The address of the GOB of step g in the tiled buffer.
gob_address(g, width, height, bytes_per_pixel, block_height, block_depth_) ==
    LET width_in_gobs_ == width_in_gobs(width, bytes_per_pixel)
        slice_size_ == slice_size(block_height, block_depth_, width_in_gobs_, height)
        block_width == 1
        block_size_in_bytes == GOB_SIZE_IN_BYTES * block_width * block_height * block_depth_
        block_height_in_bytes == GOB_HEIGHT_IN_BYTES * block_height
        offset_z == gob_address_z(g.z0, block_height, block_depth_, slice_size_)
        offset_y == gob_address_y(g.y0, block_height_in_bytes, block_size_in_bytes,
                                  width_in_gobs_)
        offset_x == gob_address_x(g.x0, block_size_in_bytes)
    IN  offset_z + offset_y + offset_x

\* The copies of one GOB step.
GobRows(g, width, height, bytes_per_pixel, block_height, block_depth_) ==
    IF fast_path(g.x0, g.y0, width, height, bytes_per_pixel)
    THEN complete_gob((g.z0 * width * height * bytes_per_pixel)
                        + (g.y0 * width * bytes_per_pixel) + g.x0,
                      gob_address(g, width, height, bytes_per_pixel, block_height,
                                  block_depth_),
                      width * bytes_per_pixel)
    ELSE swizzle_deswizzle_gob(g.x0, g.y0, g.z0, width, height, bytes_per_pixel,
                               gob_address(g, width, height, bytes_per_pixel,
                                           block_height, block_depth_))

\* Some copy of the GOB indexes out of bounds.
RowsPanic(deswizzle, rows, source, src_base, destination, dst_base) ==
    \E i \in DOMAIN rows : \E k \in DOMAIN rows[i] :
        CopyPanics(deswizzle, rows[i][k], source, src_base, destination, dst_base)

\* ------------------------------------------------------------- size functions
\* swizzled_mip_size that counts the rows of the GOBs (8 per GOB) and not
\* their bytes.
swizzled_mip_size_in_gob_rows(width, height, depth, block_height, bytes_per_pixel) ==
    width_in_gobs(width, bytes_per_pixel)
        * (height_in_blocks(height, block_height) * block_height)
        * round_up(depth, block_depth(depth)) * GOB_HEIGHT_IN_BYTES

swizzled_mip_size(width, height, depth, block_height, bytes_per_pixel) ==
    LET width_in_gobs_ == width_in_gobs(width, bytes_per_pixel)
        height_in_blocks_ == height_in_blocks(height, block_height)
        height_in_gobs == height_in_blocks_ * block_height
        depth_in_gobs == round_up(depth, block_depth(depth))
        num_gobs == width_in_gobs_ * height_in_gobs * depth_in_gobs
    IN  num_gobs * GOB_SIZE_IN_BYTES

deswizzled_mip_size(width, height, depth, bytes_per_pixel) ==
    width * height * depth * bytes_per_pixel

swizzled_mip_size_overflows(width, height, depth, block_height, bytes_per_pixel) ==
    \/ width_in_gobs_overflows(width, bytes_per_pixel)
    \/ height_in_blocks_overflows(height, block_height)
    \/ block_depth_overflows(depth)
    \/ round_up_overflows(depth, block_depth(depth))

\* ------------------------------------------------------------ layer alignment
RECURSIVE HalveDepth(_, _)
HalveDepth(depth, gob_depth) ==
    IF depth <= (gob_depth \div 2) /\ gob_depth > 1
    THEN HalveDepth(depth, gob_depth \div 2)
    ELSE gob_depth

\* align_layer_size that adds a block of GOBs to every size.
align_layer_size_adding_a_block(layer_size, height, depth, bh_mip0, depth_in_gobs) ==
    LET gob_blocks_in_tile_x == 1
        gob_height == HalveHeight(height, bh_mip0)
        gob_depth == HalveDepth(depth, depth_in_gobs)
        block_of_gobs_size == gob_height * gob_depth * GOB_SIZE_IN_BYTES
        size_in_block_of_gobs == layer_size \div block_of_gobs_size
    IN  (size_in_block_of_gobs + 1) * block_of_gobs_size

align_layer_size(layer_size, height, depth, bh_mip0, depth_in_gobs) ==
    LET gob_blocks_in_tile_x == 1
        gob_height == HalveHeight(height, bh_mip0)
        gob_depth == HalveDepth(depth, depth_in_gobs)
        block_of_gobs_size == gob_height * gob_depth * GOB_SIZE_IN_BYTES
        size_in_block_of_gobs == layer_size \div block_of_gobs_size
    IN  IF layer_size # size_in_block_of_gobs * block_of_gobs_size
        THEN (size_in_block_of_gobs + 1) * block_of_gobs_size
        ELSE layer_size

\* ---------------------------------------------------------- surface functions
\* BlockDim: the pixels of a block, each a NonZeroU32.
BlockDim(w, h, d) == [width |-> w, height |-> h, depth |-> d]
uncompressed == BlockDim(1, 1, 1)
block_4x4 == BlockDim(4, 4, 1)

\* A dimension of mip level mip: max(div_round_up(dim >> mip, block), 1).
\* The mip dimension with the halvings rounded up: ceil(dim / 2^mip) in
\* place of dim >> mip.
mip_dim_halved_upwards(dim, mip, block) ==
    Max2(div_round_up(IF mip >= WordBits THEN 1 ELSE (dim + 2^mip - 1) \div (2^mip),
                      block), 1)

mip_dim(dim, mip, block) == Max2(div_round_up(Shr(dim, mip), block), 1)
mip_dim_overflows(dim, mip, block) == div_round_up_overflows(Shr(dim, mip), block)

\* The block height of mip 0 in swizzled_surface_size: the argument (0 is
\* None), inferred from the height when it is None, and One for every surface
\* with depth != 1.
surface_block_height_mip0(height, depth, block_dim, bh_mip0) ==
    IF depth = 1
    THEN IF bh_mip0 = 0
         THEN block_height_mip0(div_round_up(height, block_dim.height))
         ELSE bh_mip0
    ELSE 1
surface_block_height_mip0_overflows(height, depth, block_dim, bh_mip0) ==
    /\ depth = 1
    /\ bh_mip0 = 0
    /\ \/ div_round_up_overflows(height, block_dim.height)
       \/ block_height_mip0_overflows(div_round_up(height, block_dim.height))

\* The tiled size of mip level mip of a surface.
surface_swizzled_mip(width, height, depth, block_dim, bh0, bytes_per_pixel, mip) ==
    LET mip_width == mip_dim(width, mip, block_dim.width)
        mip_height == mip_dim(height, mip, block_dim.height)
        mip_depth == mip_dim(depth, mip, block_dim.depth)
    IN  swizzled_mip_size(mip_width, mip_height, mip_depth,
                          mip_block_height(mip_height, bh0), bytes_per_pixel)

surface_deswizzled_mip(width, height, depth, block_dim, bytes_per_pixel, mip) ==
    deswizzled_mip_size(mip_dim(width, mip, block_dim.width),
                        mip_dim(height, mip, block_dim.height),
                        mip_dim(depth, mip, block_dim.depth), bytes_per_pixel)

\* mip_size += ... for mip in 0 .. n - 1
RECURSIVE SwizzledMipSum(_, _, _, _, _, _, _)
SwizzledMipSum(width, height, depth, block_dim, bh0, bytes_per_pixel, n) ==
    IF n = 0 THEN 0
    ELSE SwizzledMipSum(width, height, depth, block_dim, bh0, bytes_per_pixel, n - 1)
         + surface_swizzled_mip(width, height, depth, block_dim, bh0, bytes_per_pixel, n - 1)

RECURSIVE DeswizzledMipSum(_, _, _, _, _, _)
DeswizzledMipSum(width, height, depth, block_dim, bytes_per_pixel, n) ==
    IF n = 0 THEN 0
    ELSE DeswizzledMipSum(width, height, depth, block_dim, bytes_per_pixel, n - 1)
         + surface_deswizzled_mip(width, height, depth, block_dim, bytes_per_pixel, n - 1)

\* swizzled_surface_size that aligns the size of a single layer as well.
swizzled_surface_size_always_aligned(width, height, depth, block_dim, bh_mip0, bytes_per_pixel, mipmap_count, layer_count) ==
    align_layer_size(
        SwizzledMipSum(width, height, depth, block_dim,
                       surface_block_height_mip0(height, depth, block_dim, bh_mip0),
                       bytes_per_pixel, mipmap_count),
        height, depth, surface_block_height_mip0(height, depth, block_dim, bh_mip0), 1)
      * layer_count

swizzled_surface_size(width, height, depth, block_dim, bh_mip0, bytes_per_pixel, mipmap_count, layer_count) ==
    LET bh0 == surface_block_height_mip0(height, depth, block_dim, bh_mip0)
        mip_size == SwizzledMipSum(width, height, depth, block_dim, bh0,
                                   bytes_per_pixel, mipmap_count)
    IN  IF layer_count > 1
        THEN align_layer_size(mip_size, height, depth, bh0, 1) * layer_count
        ELSE mip_size

deswizzled_surface_size(width, height, depth, block_dim, bytes_per_pixel, mipmap_count, layer_count) ==
    DeswizzledMipSum(width, height, depth, block_dim, bytes_per_pixel, mipmap_count)
        * layer_count

\* Some u32 operation of deswizzled_surface_size overflows.
deswizzled_surface_size_overflows(width, height, depth, block_dim, mipmap_count) ==
    \E mip \in 0 .. mipmap_count - 1 :
        \/ mip_dim_overflows(width, mip, block_dim.width)
        \/ mip_dim_overflows(height, mip, block_dim.height)
        \/ mip_dim_overflows(depth, mip, block_dim.depth)

\* Some u32 operation of swizzled_surface_size overflows.
surface_sizes_overflow(width, height, depth, block_dim, bh_mip0, bytes_per_pixel, mipmap_count) ==
    \/ surface_block_height_mip0_overflows(height, depth, block_dim, bh_mip0)
    \/ \E mip \in 0 .. mipmap_count - 1 :
          \/ mip_dim_overflows(width, mip, block_dim.width)
          \/ mip_dim_overflows(height, mip, block_dim.height)
          \/ mip_dim_overflows(depth, mip, block_dim.depth)
          \/ swizzled_mip_size_overflows(
                 mip_dim(width, mip, block_dim.width),
                 mip_dim(height, mip, block_dim.height),
                 mip_dim(depth, mip, block_dim.depth),
                 mip_block_height(mip_dim(height, mip, block_dim.height),
                     surface_block_height_mip0(height, depth, block_dim, bh_mip0)),
                 bytes_per_pixel)

\* checked_mul: the product, or -1 (None) when an operand is None or the
\* product does not fit the word.
checked_mul(a, b) ==
    IF a < 0 \/ b < 0 THEN -1
    ELSE IF b # 0 /\ a > U32_MAX \div b THEN -1
    ELSE a * b

checked_add(a, b) == IF a + b > U32_MAX THEN -1 ELSE a + b

\* validate_surface: TRUE for Ok(()), FALSE for Err(InvalidSurface).
\* validate_surface that also rejects a mip count of u32::BITS.
validate_surface_rejecting_32_mips(width, height, depth, bytes_per_pixel, mipmap_count) ==
    ~ \/ checked_mul(checked_mul(checked_mul(width, height), depth), bytes_per_pixel) < 0
      \/ checked_mul(width, bytes_per_pixel) < 0
      \/ checked_add(depth, depth \div 2) < 0
      \/ mipmap_count >= U32_BITS

validate_surface(width, height, depth, bytes_per_pixel, mipmap_count) ==
    ~ \/ checked_mul(checked_mul(checked_mul(width, height), depth), bytes_per_pixel) < 0
      \/ checked_mul(width, bytes_per_pixel) < 0
      \/ checked_add(depth, depth \div 2) < 0
      \/ mipmap_count > U32_BITS

\* ------------------------------------------------------------- state machine
VARIABLES
    overflow_checks,  \* the build panics on integer overflow (debug) or wraps
    call,             \* the entry point and its arguments
    source,           \* the source slice of the call
    pc,               \* the position inside the call
    destination,      \* the output vector of the call, NoBuf before allocation
    layer, mip,       \* loop counters of swizzle_surface_inner
    src_offset, dst_offset,
    gob,              \* the next GOB step of swizzle_inner
    result,           \* what the call returned
    stage,            \* 1: the first call, 2: the inverse call on its output
    original          \* the source of the first call

vars == << overflow_checks, call, source, pc, destination, layer, mip, src_offset,
           dst_offset, gob, result, stage, original >>

NoBuf == [len |-> 0, data |-> <<>>, fill |-> "none"]
NoResult == [tag |-> "none"]
Ok == [tag |-> "Ok"]
Panic == [tag |-> "panic"]
InvalidSurface(c) ==
    [tag |-> "InvalidSurface", width |-> c.width, height |-> c.height,
     depth |-> c.depth, bytes_per_pixel |-> c.bytes_per_pixel,
     mipmap_count |-> c.mipmap_count]
NotEnoughData(expected_size, actual_size) ==
    [tag |-> "NotEnoughData", expected_size |-> expected_size, actual_size |-> actual_size]

IsSurface(fn) == fn \in {"swizzle_surface", "deswizzle_surface"}
IsBlockLinear(fn) == fn \in {"swizzle_block_linear", "deswizzle_block_linear"}
\* The functions of the C API that tile and untile one mip level.
IsFfi(fn) == fn \in {"ffi::swizzle_block_linear", "ffi::deswizzle_block_linear"}
Ffi(fn) ==
    CASE fn = "swizzle_block_linear" -> "ffi::swizzle_block_linear"
      [] fn = "deswizzle_block_linear" -> "ffi::deswizzle_block_linear"
IsDeswizzle(fn) ==
    fn \in {"deswizzle_surface", "deswizzle_block_linear", "ffi::deswizzle_block_linear"}
Inverse(fn) ==
    CASE fn = "swizzle_surface" -> "deswizzle_surface"
      [] fn = "deswizzle_surface" -> "swizzle_surface"
      [] fn = "swizzle_block_linear" -> "deswizzle_block_linear"
      [] fn = "deswizzle_block_linear" -> "swizzle_block_linear"

\* The selection of swizzle_surface_inner without the test of the depth.
CallBlockHeightMip0_for_any_depth(c) ==
    IF c.block_height = 0
    THEN block_height_mip0(div_round_up(c.height, c.block_dim.height))
    ELSE c.block_height

\* The block height of mip 0 that swizzle_surface_inner uses for the call c.
CallBlockHeightMip0(c) ==
    IF c.depth = 1
    THEN IF c.block_height = 0
         THEN block_height_mip0(div_round_up(c.height, c.block_dim.height))
         ELSE c.block_height
    ELSE 1

\* The arguments of the swizzle_inner call in progress: those of the block
\* linear entry points, or those swizzle_surface_inner and swizzle_mipmap
\* derive for mip level m at the offsets so and do.
Cur(c, m, so, do) ==
    IF IsBlockLinear(c.fn)
    THEN [width |-> c.width, height |-> c.height, depth |-> c.depth,
          block_height |-> c.block_height, block_depth |-> block_depth(c.depth),
          bytes_per_pixel |-> c.bytes_per_pixel, src_base |-> 0, dst_base |-> 0]
    ELSE IF IsFfi(c.fn)
    THEN [width |-> c.width, height |-> c.height, depth |-> c.depth,
          block_height |-> c.block_height, block_depth |-> c.depth,
          bytes_per_pixel |-> c.bytes_per_pixel, src_base |-> 0, dst_base |-> 0]
    ELSE LET mip_width == mip_dim(c.width, m, c.block_dim.width)
             mip_height == mip_dim(c.height, m, c.block_dim.height)
             mip_depth == mip_dim(c.depth, m, c.block_dim.depth)
         IN  [width |-> mip_width, height |-> mip_height, depth |-> mip_depth,
              block_height |-> mip_block_height(mip_height, CallBlockHeightMip0(c)),
              block_depth |-> mip_block_depth(mip_depth, block_depth(c.depth)),
              bytes_per_pixel |-> c.bytes_per_pixel, src_base |-> so, dst_base |-> do]

\* swizzled_size taken from the linear side of the mip level.
CurSwizzledSize_of_the_pixels(p) ==
    deswizzled_mip_size(p.width, p.height, p.depth, p.bytes_per_pixel)

CurSwizzledSize(p) ==
    swizzled_mip_size(p.width, p.height, p.depth, p.block_height, p.bytes_per_pixel)
\* deswizzled_size taken from the tiled side of the mip level.
CurDeswizzledSize_of_the_gobs(p) ==
    swizzled_mip_size(p.width, p.height, p.depth, p.block_height, p.bytes_per_pixel)

CurDeswizzledSize(p) ==
    deswizzled_mip_size(p.width, p.height, p.depth, p.bytes_per_pixel)

CallSwizzledSize(c) ==
    IF IsSurface(c.fn)
    THEN swizzled_surface_size(c.width, c.height, c.depth, c.block_dim, c.block_height,
                               c.bytes_per_pixel, c.mipmap_count, c.layer_count)
    ELSE swizzled_mip_size(c.width, c.height, c.depth, c.block_height, c.bytes_per_pixel)
CallDeswizzledSize(c) ==
    IF IsSurface(c.fn)
    THEN deswizzled_surface_size(c.width, c.height, c.depth, c.block_dim,
                                 c.bytes_per_pixel, c.mipmap_count, c.layer_count)
    ELSE deswizzled_mip_size(c.width, c.height, c.depth, c.bytes_per_pixel)

\* (surface_size, expected_size) of an entry point: the length of the output
\* and the length the source must have.
\* surface_size taken from the other side of the transform.
SurfaceSize_of_the_source(c) ==
    IF IsDeswizzle(c.fn) THEN CallSwizzledSize(c) ELSE CallDeswizzledSize(c)

SurfaceSize(c) == IF IsDeswizzle(c.fn) THEN CallDeswizzledSize(c) ELSE CallSwizzledSize(c)
ExpectedSize(c) == IF IsDeswizzle(c.fn) THEN CallSwizzledSize(c) ELSE CallDeswizzledSize(c)

\* AnyZero without the test of layer_count.
AnyZero_without_layer_count(c) ==
    \/ c.width = 0 \/ c.height = 0 \/ c.depth = 0
    \/ c.bytes_per_pixel = 0 \/ c.mipmap_count = 0

AnyZero(c) ==
    \/ c.width = 0 \/ c.height = 0 \/ c.depth = 0
    \/ c.bytes_per_pixel = 0 \/ c.mipmap_count = 0 \/ c.layer_count = 0

CallOverflows(c) ==
    surface_sizes_overflow(c.width, c.height, c.depth, c.block_dim, c.block_height,
                           c.bytes_per_pixel, c.mipmap_count)

Return(r) ==
    /\ result' = r
    /\ pc' = "done"

\* ---------------------------------------- swizzle_block_linear and its inverse
\* let mut destination = vec![0u8; ...]: the first statement of both functions.
BlockLinearAllocate ==
    /\ pc = "start"
    /\ IsBlockLinear(call.fn)
    /\ destination' = ZeroVec(SurfaceSize(call))
    /\ pc' = "allocated"
    /\ UNCHANGED << overflow_checks, call, source, layer, mip, src_offset, dst_offset,
                    gob, result, stage, original >>

BlockLinearNotEnoughData ==
    /\ pc = "allocated"
    /\ source.len < ExpectedSize(call)
    /\ Return(NotEnoughData(ExpectedSize(call), source.len))
    /\ UNCHANGED << overflow_checks, call, source, destination, layer, mip, src_offset,
                    dst_offset, gob, stage, original >>

BlockLinearChecked ==
    /\ pc = "allocated"
    /\ ~ (source.len < ExpectedSize(call))
    /\ pc' = "gob"
    /\ gob' = 1
    /\ UNCHANGED << overflow_checks, call, source, destination, layer, mip, src_offset,
                    dst_offset, result, stage, original >>

BlockLinearReturn ==
    /\ pc = "gob"
    /\ IsBlockLinear(call.fn)
    /\ LET p == Cur(call, mip, src_offset, dst_offset)
       IN  gob > NumGobSteps(p.width, p.height, p.depth, p.bytes_per_pixel)
    /\ Return(Ok)
    /\ UNCHANGED << overflow_checks, call, source, destination, layer, mip, src_offset,
                    dst_offset, gob, stage, original >>

\* ------------------------------------------------------------- swizzle_inner
\* One iteration of the loops of swizzle_inner: the GOB at (x0, y0, z0).
GobIteration(complete) ==
    /\ LET p == Cur(call, mip, src_offset, dst_offset)
       IN  /\ gob <= NumGobSteps(p.width, p.height, p.depth, p.bytes_per_pixel)
           /\ LET g == GobStep(gob, p.width, p.height, p.bytes_per_pixel)
                  rows == GobRows(g, p.width, p.height, p.bytes_per_pixel,
                                  p.block_height, p.block_depth)
              IN  /\ complete = fast_path(g.x0, g.y0, p.width, p.height, p.bytes_per_pixel)
                  /\ IF RowsPanic(IsDeswizzle(call.fn), rows, source, p.src_base,
                                  destination, p.dst_base)
                     THEN /\ Return(Panic)
                          /\ UNCHANGED << destination, gob >>
                     ELSE /\ destination' =
                                [destination EXCEPT !.data =
                                    ApplyRows(IsDeswizzle(call.fn), rows, 1, source,
                                              p.src_base, destination.data, p.dst_base)]
                          /\ gob' = gob + 1
                          /\ UNCHANGED << pc, result >>
    /\ UNCHANGED << overflow_checks, call, source, layer, mip, src_offset, dst_offset,
                    stage, original >>

\* The fast path: deswizzle_complete_gob or swizzle_complete_gob.
CompleteGob ==
    /\ pc = "gob"
    /\ GobIteration(TRUE)

\* The slow path: swizzle_deswizzle_gob.
PartialGob ==
    /\ pc = "gob"
    /\ GobIteration(FALSE)

\* ------------------------------------------- swizzle_surface, deswizzle_surface
SurfaceEmpty ==
    /\ pc = "start"
    /\ IsSurface(call.fn)
    /\ AnyZero(call)
    /\ destination' = ZeroVec(0)
    /\ Return(Ok)
    /\ UNCHANGED << overflow_checks, call, source, layer, mip, src_offset, dst_offset,
                    gob, stage, original >>

SurfaceInvalid ==
    /\ pc = "start"
    /\ IsSurface(call.fn)
    /\ ~ AnyZero(call)
    /\ ~ validate_surface(call.width, call.height, call.depth, call.bytes_per_pixel,
                          call.mipmap_count)
    /\ Return(InvalidSurface(call))
    /\ UNCHANGED << overflow_checks, call, source, destination, layer, mip, src_offset,
                    dst_offset, gob, stage, original >>

SurfaceValidated ==
    /\ pc = "start"
    /\ IsSurface(call.fn)
    /\ ~ AnyZero(call)
    /\ validate_surface(call.width, call.height, call.depth, call.bytes_per_pixel,
                        call.mipmap_count)
    /\ pc' = "destination"
    /\ UNCHANGED << overflow_checks, call, source, destination, layer, mip, src_offset,
                    dst_offset, gob, result, stage, original >>

\* surface_destination: an integer operation of the size functions overflows
\* and the build checks for it.
DestinationOverflow ==
    /\ pc = "destination"
    /\ overflow_checks
    /\ CallOverflows(call)
    /\ Return(Panic)
    /\ UNCHANGED << overflow_checks, call, source, destination, layer, mip, src_offset,
                    dst_offset, gob, stage, original >>

DestinationNotEnoughData ==
    /\ pc = "destination"
    /\ ~ (overflow_checks /\ CallOverflows(call))
    /\ source.len < ExpectedSize(call)
    /\ Return(NotEnoughData(ExpectedSize(call), source.len))
    /\ UNCHANGED << overflow_checks, call, source, destination, layer, mip, src_offset,
                    dst_offset, gob, stage, original >>

DestinationAllocate ==
    /\ pc = "destination"
    /\ ~ (overflow_checks /\ CallOverflows(call))
    /\ ~ (source.len < ExpectedSize(call))
    /\ destination' = ZeroVec(SurfaceSize(call))
    /\ pc' = IF call.layer_count > 0 THEN "mip" ELSE "return"
    /\ layer' = 0
    /\ mip' = 0
    /\ src_offset' = 0
    /\ dst_offset' = 0
    /\ UNCHANGED << overflow_checks, call, source, gob, result, stage, original >>

\* swizzle_mipmap up to its call of swizzle_inner.
SwizzleMipmap ==
    /\ pc = "mip"
    /\ mip < call.mipmap_count
    /\ LET p == Cur(call, mip, src_offset, dst_offset)
           size == IF IsDeswizzle(call.fn) THEN CurSwizzledSize(p)
                   ELSE CurDeswizzledSize(p)
       IN  IF source.len < src_offset + size
           THEN /\ Return(NotEnoughData(size, source.len))
                /\ UNCHANGED gob
           ELSE /\ pc' = "gob"
                /\ gob' = 1
                /\ UNCHANGED result
    /\ UNCHANGED << overflow_checks, call, source, destination, layer, mip, src_offset,
                    dst_offset, stage, original >>

\* swizzle_mipmap after swizzle_inner: move to the next section.
EndMipmap ==
    /\ pc = "gob"
    /\ IsSurface(call.fn)
    /\ LET p == Cur(call, mip, src_offset, dst_offset)
       IN  /\ gob > NumGobSteps(p.width, p.height, p.depth, p.bytes_per_pixel)
           /\ IF IsDeswizzle(call.fn)
              THEN /\ src_offset' = src_offset + CurSwizzledSize(p)
                   /\ dst_offset' = dst_offset + CurDeswizzledSize(p)
              ELSE /\ src_offset' = src_offset + CurDeswizzledSize(p)
                   /\ dst_offset' = dst_offset + CurSwizzledSize(p)
    /\ mip' = mip + 1
    /\ pc' = "mip"
    /\ UNCHANGED << overflow_checks, call, source, destination, layer, gob, result,
                    stage, original >>

\* The end of the mip loop of one layer: align the offset on the tiled side.
EndLayer ==
    /\ pc = "mip"
    /\ mip = call.mipmap_count
    /\ IF call.layer_count > 1
       THEN IF IsDeswizzle(call.fn)
            THEN /\ src_offset' = align_layer_size(src_offset, call.height, call.depth,
                                                   CallBlockHeightMip0(call), 1)
                 /\ UNCHANGED dst_offset
            ELSE /\ dst_offset' = align_layer_size(dst_offset, call.height, call.depth,
                                                   CallBlockHeightMip0(call), 1)
                 /\ UNCHANGED src_offset
       ELSE UNCHANGED << src_offset, dst_offset >>
    /\ layer' = layer + 1
    /\ mip' = 0
    /\ pc' = IF layer + 1 < call.layer_count THEN "mip" ELSE "return"
    /\ UNCHANGED << overflow_checks, call, source, destination, gob, result, stage,
                    original >>

SurfaceReturn ==
    /\ pc = "return"
    /\ Return(Ok)
    /\ UNCHANGED << overflow_checks, call, source, destination, layer, mip, src_offset,
                    dst_offset, gob, stage, original >>

\* ------------------------------------------------------------------ callers
\* The caller of the tests and of the fuzz target: the output of the first
\* call is the source of the inverse call with the same arguments.
RoundTrip ==
    /\ pc = "done"
    /\ stage = 1
    /\ result.tag = "Ok"
    /\ call.fn # "deswizzle_surface"
    /\ call' = [call EXCEPT !.fn = Inverse(call.fn)]
    /\ source' = destination
    /\ destination' = NoBuf
    /\ result' = NoResult
    /\ stage' = 2
    /\ pc' = "start"
    /\ layer' = 0
    /\ mip' = 0
    /\ src_offset' = 0
    /\ dst_offset' = 0
    /\ gob' = 0
    /\ UNCHANGED << overflow_checks, original >>

\* ------------------------------------------------------ one mip level, tiled
\* The calls of swizzle_block_linear and deswizzle_block_linear: widths with
\* and without a complete GOB, heights below, at and above one GOB, 2D and 3D,
\* every block height.
MipCalls ==
    {[fn |-> fn, width |-> w, height |-> h, depth |-> d, block_dim |-> uncompressed,
      block_height |-> bh, bytes_per_pixel |-> bpp, mipmap_count |-> 1,
      layer_count |-> 1] :
        fn \in {"swizzle_block_linear", "deswizzle_block_linear"},
        w \in {1, MaxWidth}, h \in {1, GOB_HEIGHT_IN_BYTES, MaxHeight},
        d \in {1, MaxDepth}, bh \in BlockHeight, bpp \in {1, 12}}

Start(c, src) ==
    /\ call = c
    /\ source = src
    /\ original = src
    /\ pc = "start"
    /\ destination = NoBuf
    /\ layer = 0
    /\ mip = 0
    /\ src_offset = 0
    /\ dst_offset = 0
    /\ gob = 0
    /\ result = NoResult
    /\ stage = 1

InitMip ==
    /\ overflow_checks \in BOOLEAN
    /\ \E c \in MipCalls : \E short \in {0, 1} :
          Start(c, Input(ExpectedSize(c) - short))

NextMip ==
    \/ BlockLinearAllocate
    \/ BlockLinearNotEnoughData
    \/ BlockLinearChecked
    \/ CompleteGob
    \/ PartialGob
    \/ BlockLinearReturn
    \/ RoundTrip

SpecMip == InitMip /\ [][NextMip]_vars

\* ------------------------------------------------------------ whole surfaces
SurfaceShape(w, h, d, block_dim, bpp) ==
    [width |-> w, height |-> h, depth |-> d, block_dim |-> block_dim,
     bytes_per_pixel |-> bpp]

\* A single pixel, an odd 2D surface with complete GOBs, a block compressed
\* 2D surface and a 3D surface.
SurfaceShapes ==
    {SurfaceShape(1, 1, 1, uncompressed, 1),
     SurfaceShape(MaxWidth, MaxHeight, 1, uncompressed, 12),
     SurfaceShape(4 * MaxWidth, 4 * MaxHeight, 1, block_4x4, 8),
     SurfaceShape(MaxWidth, GOB_HEIGHT_IN_BYTES + 1, MaxDepth, uncompressed, 4)}

SurfaceCalls ==
    {[fn |-> fn, width |-> sh.width, height |-> sh.height, depth |-> sh.depth,
      block_dim |-> sh.block_dim, block_height |-> bh,
      bytes_per_pixel |-> sh.bytes_per_pixel, mipmap_count |-> mips,
      layer_count |-> layers] :
        fn \in {"swizzle_surface", "deswizzle_surface"}, sh \in SurfaceShapes,
        bh \in {0, 1, 16}, mips \in {1, MaxMips}, layers \in {1, MaxLayers}}

\* No arithmetic of these calls exceeds the word, so that the two builds run
\* alike: the build with overflow checks is taken.
InitSurface ==
    /\ overflow_checks = TRUE
    /\ \E c \in SurfaceCalls : \E short \in {-1, 0, 1} :
          Start(c, Input(ExpectedSize(c) - short))

NextSurface ==
    \/ SurfaceValidated
    \/ DestinationNotEnoughData
    \/ DestinationAllocate
    \/ SwizzleMipmap
    \/ CompleteGob
    \/ PartialGob
    \/ EndMipmap
    \/ EndLayer
    \/ SurfaceReturn
    \/ RoundTrip

SpecSurface == InitSurface /\ [][NextSurface]_vars

\* ------------------------------------------------ the limits of the arguments
\* Surface calls with counts of 0, dimensions of u32::MAX, mip counts around
\* u32::BITS and sources of a few bytes, of one GOB per mip level and, for a
\* single mip level, of the exact size.
LimitCalls ==
    {[fn |-> fn, width |-> w, height |-> h, depth |-> d, block_dim |-> uncompressed,
      block_height |-> bh, bytes_per_pixel |-> bpp, mipmap_count |-> mips,
      layer_count |-> layers] :
        fn \in {"swizzle_surface", "deswizzle_surface"},
        w \in {0, 1, U32_MAX}, h \in {0, 1, U32_MAX}, d \in {0, 1, U32_MAX},
        bh \in {0, 16}, bpp \in {0, 1, 4},
        mips \in {0, 1, U32_BITS, U32_BITS + 1}, layers \in {0, 1, MaxLayers}}

InitLimits ==
    /\ overflow_checks \in BOOLEAN
    /\ \E c \in LimitCalls :
          \E n \in {0, 4, U32_BITS * GOB_SIZE_IN_BYTES}
                    \cup (IF ~ AnyZero(c) /\ c.mipmap_count = 1
                             /\ validate_surface(c.width, c.height, c.depth,
                                                 c.bytes_per_pixel, c.mipmap_count)
                          THEN {ExpectedSize(c)} ELSE {}) :
              Start(c, Input(n))

NextLimits ==
    \/ SurfaceEmpty
    \/ SurfaceInvalid
    \/ SurfaceValidated
    \/ DestinationOverflow
    \/ DestinationNotEnoughData
    \/ DestinationAllocate
    \/ SwizzleMipmap
    \/ PartialGob
    \/ EndMipmap
    \/ EndLayer
    \/ SurfaceReturn

SpecLimits == InitLimits /\ [][NextLimits]_vars

\* --------------------------------------------------------- the size functions
Size(n) == [tag |-> "size", value |-> n]

SwizzledMipSize ==
    /\ pc = "start"
    /\ call.fn = "swizzled_mip_size"
    /\ IF overflow_checks
          /\ swizzled_mip_size_overflows(call.width, call.height, call.depth,
                                         call.block_height, call.bytes_per_pixel)
       THEN Return(Panic)
       ELSE Return(Size(CallSwizzledSize(call)))
    /\ UNCHANGED << overflow_checks, call, source, destination, layer, mip, src_offset,
                    dst_offset, gob, stage, original >>

DeswizzledMipSize ==
    /\ pc = "start"
    /\ call.fn = "deswizzled_mip_size"
    /\ Return(Size(CallDeswizzledSize(call)))
    /\ UNCHANGED << overflow_checks, call, source, destination, layer, mip, src_offset,
                    dst_offset, gob, stage, original >>

SwizzledSurfaceSize ==
    /\ pc = "start"
    /\ call.fn = "swizzled_surface_size"
    /\ IF overflow_checks /\ CallOverflows(call)
       THEN Return(Panic)
       ELSE Return(Size(swizzled_surface_size(
                call.width, call.height, call.depth, call.block_dim, call.block_height,
                call.bytes_per_pixel, call.mipmap_count, call.layer_count)))
    /\ UNCHANGED << overflow_checks, call, source, destination, layer, mip, src_offset,
                    dst_offset, gob, stage, original >>

DeswizzledSurfaceSize ==
    /\ pc = "start"
    /\ call.fn = "deswizzled_surface_size"
    /\ IF overflow_checks
          /\ deswizzled_surface_size_overflows(call.width, call.height, call.depth,
                                               call.block_dim, call.mipmap_count)
       THEN Return(Panic)
       ELSE Return(Size(deswizzled_surface_size(
                call.width, call.height, call.depth, call.block_dim,
                call.bytes_per_pixel, call.mipmap_count, call.layer_count)))
    /\ UNCHANGED << overflow_checks, call, source, destination, layer, mip, src_offset,
                    dst_offset, gob, stage, original >>

\* Dimensions: small ones, ones around the sides of a GOB, and u32::MAX next
\* to dimensions of 1.
SizeDims ==
    {<<w, h, d>> : w \in {0, 1, MaxWidth, GOB_WIDTH_IN_BYTES, GOB_WIDTH_IN_BYTES + 1},
                   h \in {0, 1, GOB_HEIGHT_IN_BYTES, MaxHeight, 16 * GOB_HEIGHT_IN_BYTES},
                   d \in {0, 1, MaxDepth, 16}}
    \cup {<<U32_MAX, 1, 1>>, <<1, U32_MAX, 1>>}

SizeBytesPerPixel(dims) == IF U32_MAX \in {dims[1], dims[2]} THEN {1} ELSE {0, 1, 12}

\* The surfaces of the length tests: 4x4 blocks, depth 1, block height None,
\* with the expected swizzled and deswizzled lengths.
ReferenceSize(w, h, bpp, mips, layers, swizzled, deswizzled) ==
    [width |-> w, height |-> h, bytes_per_pixel |-> bpp, mipmap_count |-> mips,
     layer_count |-> layers, swizzled |-> swizzled, deswizzled |-> deswizzled]

ReferenceSizes ==
    {ReferenceSize(100, 100, 8, 7, 1, 12800, 6864),
     ReferenceSize(1028, 256, 16, 11, 1, 360960, 351376),
     ReferenceSize(8192, 2048, 16, 1, 1, 16777216, 16777216),
     ReferenceSize(2048, 2048, 16, 12, 1, 5594624, 5592432),
     ReferenceSize(128, 128, 16, 8, 6, 147456, 131232),
     ReferenceSize(16, 16, 16, 5, 6, 15360, 2208)}

ReferenceCalls ==
    {[fn |-> fn, width |-> r.width, height |-> r.height, depth |-> 1,
      block_dim |-> block_4x4, block_height |-> 0,
      bytes_per_pixel |-> r.bytes_per_pixel, mipmap_count |-> r.mipmap_count,
      layer_count |-> r.layer_count] :
        fn \in {"swizzled_surface_size", "deswizzled_surface_size"},
        r \in ReferenceSizes}

SizeCalls ==
    {[fn |-> fn, width |-> dims[1], height |-> dims[2], depth |-> dims[3],
      block_dim |-> uncompressed, block_height |-> bh, bytes_per_pixel |-> bpp,
      mipmap_count |-> 1, layer_count |-> 1] :
        fn \in {"swizzled_mip_size", "deswizzled_mip_size"},
        dims \in SizeDims, bh \in BlockHeight, bpp \in {0, 1, 12}}
    \cup
    {[fn |-> fn, width |-> dims[1], height |-> dims[2], depth |-> dims[3],
      block_dim |-> block_dim, block_height |-> bh, bytes_per_pixel |-> bpp,
      mipmap_count |-> mips, layer_count |-> layers] :
        fn \in {"swizzled_surface_size", "deswizzled_surface_size"},
        dims \in SizeDims, block_dim \in {uncompressed, block_4x4}, bh \in {0, 1, 16},
        bpp \in {0, 1, 12}, mips \in {0, 1, MaxMips, U32_BITS},
        layers \in {0, 1, MaxLayers}}
    \cup ReferenceCalls

InitSizes ==
    /\ overflow_checks \in BOOLEAN
    /\ \E c \in SizeCalls :
          /\ \/ c \in ReferenceCalls
             \/ c.bytes_per_pixel \in SizeBytesPerPixel(<< c.width, c.height, c.depth >>)
          /\ Start(c, Input(0))

NextSizes ==
    \/ SwizzledMipSize
    \/ DeswizzledMipSize
    \/ SwizzledSurfaceSize
    \/ DeswizzledSurfaceSize

SpecSizes == InitSizes /\ [][NextSizes]_vars

\* ------------------------------------------- block heights and mip dimensions
Returned(v) == [tag |-> "value", value |-> v]

\* mip_block_height: the loop, then BlockHeight::new(block_height).unwrap().
MipBlockHeight ==
    /\ pc = "start"
    /\ call.fn = "mip_block_height"
    /\ LET block_height == mip_block_height(call.mip_height, call.block_height_mip0)
       IN  IF block_height = 0
           THEN Return(Panic)
           ELSE Return(Returned(block_height))
    /\ UNCHANGED << overflow_checks, call, source, destination, layer, mip, src_offset,
                    dst_offset, gob, stage, original >>

BlockHeightMip0 ==
    /\ pc = "start"
    /\ call.fn = "block_height_mip0"
    /\ IF overflow_checks /\ block_height_mip0_overflows(call.height)
       THEN Return(Panic)
       ELSE Return(Returned(block_height_mip0(call.height)))
    /\ UNCHANGED << overflow_checks, call, source, destination, layer, mip, src_offset,
                    dst_offset, gob, stage, original >>

\* The dimension of one axis of one mip level, as swizzle_surface_inner and
\* the size functions compute it.
MipDim ==
    /\ pc = "start"
    /\ call.fn = "mip_dim"
    /\ IF overflow_checks /\ mip_dim_overflows(call.dim, call.mip, call.block)
       THEN Return(Panic)
       ELSE Return(Returned(mip_dim(call.dim, call.mip, call.block)))
    /\ UNCHANGED << overflow_checks, call, source, destination, layer, mip, src_offset,
                    dst_offset, gob, stage, original >>

\* block_depth: depth + depth / 2 is not checked.
BlockDepth ==
    /\ pc = "start"
    /\ call.fn = "block_depth"
    /\ IF overflow_checks /\ block_depth_overflows(call.depth)
       THEN Return(Panic)
       ELSE Return(Returned(block_depth(call.depth)))
    /\ UNCHANGED << overflow_checks, call, source, destination, layer, mip, src_offset,
                    dst_offset, gob, stage, original >>

\* mip_block_depth for the depth of a mip level and the block depth of mip 0.
MipBlockDepth ==
    /\ pc = "start"
    /\ call.fn = "mip_block_depth"
    /\ Return(Returned(mip_block_depth(call.mip_depth, call.block_depth_mip0)))
    /\ UNCHANGED << overflow_checks, call, source, destination, layer, mip, src_offset,
                    dst_offset, gob, stage, original >>

\* align_layer_size for a size in bytes: the sizes are far below the largest
\* usize, so that the arithmetic is exact.
AlignLayerSize ==
    /\ pc = "start"
    /\ call.fn = "align_layer_size"
    /\ Return(Returned(align_layer_size(call.layer_size, call.height, call.depth,
                                        call.block_height_mip0, call.depth_in_gobs)))
    /\ UNCHANGED << overflow_checks, call, source, destination, layer, mip, src_offset,
                    dst_offset, gob, stage, original >>

\* Layer sizes of whole GOBs, of one byte more and of one byte less, up to
\* MaxLayerGobs GOBs and around the larger blocks of GOBs.
LayerSizes ==
    {GOB_SIZE_IN_BYTES * n + r :
        n \in (0 .. MaxLayerGobs) \cup {8, 16, 32, 16 * 32, 2 * 16 * 32},
        r \in {0, 1, GOB_SIZE_IN_BYTES - 1}}

\* Heights up to MaxBlockRows rows of blocks, the largest height, and one
\* whose height + height / 2 is just above the largest value of the word.
BlockRows == (0 .. MaxBlockRows) \cup {2 * (U32_MAX \div 3) + 2, U32_MAX}

HelperCalls ==
    {[fn |-> "mip_block_height", mip_height |-> h, block_height_mip0 |-> b] :
        h \in BlockRows, b \in BlockHeight}
    \cup {[fn |-> "block_height_mip0", height |-> h] : h \in BlockRows}
    \cup {[fn |-> "mip_dim", dim |-> dim, mip |-> m, block |-> b] :
            dim \in (1 .. MaxDim) \cup {U32_MAX}, m \in 0 .. U32_BITS - 1,
            b \in 1 .. MaxBlock}
    \cup {[fn |-> "block_depth", depth |-> d] : d \in BlockRows}
    \cup {[fn |-> "mip_block_depth", mip_depth |-> d, block_depth_mip0 |-> b] :
            d \in 1 .. MaxDim, b \in {block_depth(d0) : d0 \in 0 .. MaxDim}}
    \cup {[fn |-> "align_layer_size", layer_size |-> n, height |-> h, depth |-> d,
           block_height_mip0 |-> b, depth_in_gobs |-> g] :
            n \in LayerSizes, h \in {1, 8, 9, 64, 128, 129}, d \in {1, 2, 3, 9},
            b \in BlockHeight, g \in {1, 2, 4, 16}}

InitHelpers ==
    /\ overflow_checks \in BOOLEAN
    /\ \E c \in HelperCalls : Start(c, Input(0))

NextHelpers ==
    \/ MipBlockHeight
    \/ BlockHeightMip0
    \/ MipDim
    \/ AlignLayerSize
    \/ BlockDepth
    \/ MipBlockDepth

SpecHelpers == InitHelpers /\ [][NextHelpers]_vars

\* ------------------------------------------------ the address of one byte
\* The terms swizzle_inner and swizzle_deswizzle_gob compute for the byte at
\* the byte coordinate (x, y, z) of a mip level: the GOB of the byte starts
\* at (x0, y0, z0) and the byte is at (x - x0, y - y0) inside it.
address_terms(x, y, z, width, height, bytes_per_pixel, block_height, block_depth_) ==
    LET width_in_gobs_ == width_in_gobs(width, bytes_per_pixel)
        slice_size_ == slice_size(block_height, block_depth_, width_in_gobs_, height)
        block_width == 1
        block_size_in_bytes == GOB_SIZE_IN_BYTES * block_width * block_height * block_depth_
        block_height_in_bytes == GOB_HEIGHT_IN_BYTES * block_height
        x0 == (x \div GOB_WIDTH_IN_BYTES) * GOB_WIDTH_IN_BYTES
        y0 == (y \div GOB_HEIGHT_IN_BYTES) * GOB_HEIGHT_IN_BYTES
        z0 == z
        offset_z == gob_address_z(z0, block_height, block_depth_, slice_size_)
        offset_y == gob_address_y(y0, block_height_in_bytes, block_size_in_bytes,
                                  width_in_gobs_)
        offset_x == gob_address_x(x0, block_size_in_bytes)
        gob_address_ == offset_z + offset_y + offset_x
    IN  [tag |-> "address",
         offset_z |-> offset_z, offset_y |-> offset_y, offset_x |-> offset_x,
         gob_offset |-> gob_offset(x - x0, y - y0),
         swizzled_offset |-> gob_address_ + gob_offset(x - x0, y - y0),
         linear_offset |-> (z0 * width * height * bytes_per_pixel)
                             + ((y0 + (y - y0)) * width * bytes_per_pixel)
                             + x0 + (x - x0)]

\* Some rounding of swizzle_inner overflows the word.
address_overflows(width, height, bytes_per_pixel, block_height) ==
    \/ width_in_gobs_overflows(width, bytes_per_pixel)
    \/ div_round_up_overflows(height, block_height * GOB_HEIGHT_IN_BYTES)

ByteAddress ==
    /\ pc = "start"
    /\ call.fn = "swizzle_inner"
    /\ IF overflow_checks
          /\ address_overflows(call.width, call.height, call.bytes_per_pixel,
                               call.block_height)
       THEN Return(Panic)
       ELSE Return(address_terms(call.x, call.y, call.z, call.width, call.height,
                                 call.bytes_per_pixel, call.block_height,
                                 call.block_depth))
    /\ UNCHANGED << overflow_checks, call, source, destination, layer, mip, src_offset,
                    dst_offset, gob, stage, original >>

\* ------------------------------------------------------------------- C API
\* The caller of the C API after the Rust function returned: the same
\* parameters and source, and a destination of as many zero bytes as the Rust
\* function returned. ffi::swizzle_block_linear and
\* ffi::deswizzle_block_linear make the two slices and call swizzle_inner with
\* the depth as the block depth.
FfiBlockLinear ==
    /\ pc = "done"
    /\ stage = 1
    /\ IsBlockLinear(call.fn)
    /\ result = Ok
    /\ call' = [call EXCEPT !.fn = Ffi(call.fn)]
    /\ original' = destination
    /\ destination' = ZeroVec(destination.len)
    /\ result' = NoResult
    /\ stage' = 2
    /\ pc' = "gob"
    /\ gob' = 1
    /\ UNCHANGED << overflow_checks, source, layer, mip, src_offset, dst_offset >>

\* swizzle_inner returned to the C API function, which returns nothing.
FfiReturn ==
    /\ pc = "gob"
    /\ IsFfi(call.fn)
    /\ LET p == Cur(call, mip, src_offset, dst_offset)
       IN  gob > NumGobSteps(p.width, p.height, p.depth, p.bytes_per_pixel)
    /\ Return(Ok)
    /\ UNCHANGED << overflow_checks, call, source, destination, layer, mip, src_offset,
                    dst_offset, gob, stage, original >>

\* Mip levels with complete and partial GOBs of the depths 1, 2, 3 and
\* MaxDepth, with sources of the documented size.
FfiCalls ==
    {[fn |-> fn, width |-> MaxWidth, height |-> h, depth |-> d,
      block_dim |-> uncompressed, block_height |-> bh, bytes_per_pixel |-> bpp,
      mipmap_count |-> 1, layer_count |-> 1] :
        fn \in {"swizzle_block_linear", "deswizzle_block_linear"},
        h \in {GOB_HEIGHT_IN_BYTES, MaxHeight}, d \in {1, 2, 3, MaxDepth},
        bh \in {1, 2, 16}, bpp \in {1, 12}}

InitFfi ==
    /\ overflow_checks \in BOOLEAN
    /\ \E c \in FfiCalls : Start(c, Input(ExpectedSize(c)))

NextFfi ==
    \/ BlockLinearAllocate
    \/ BlockLinearChecked
    \/ CompleteGob
    \/ PartialGob
    \/ BlockLinearReturn
    \/ FfiBlockLinear
    \/ FfiReturn

SpecFfi == InitFfi /\ [][NextFfi]_vars

\* The depth and the block depth of the swizzle_inner calls of the safe API:
\* mip level m of a surface of depth d0 has the depth max(d0 >> m, 1) and the
\* block depth mip_block_depth(that, block_depth(d0)); m = 0 is also the call
\* of swizzle_block_linear and deswizzle_block_linear. The first two mip
\* levels of the depths with the block depths 1, 2, 4, 8 and 16 are taken.
AddressDepths ==
    {[depth |-> mip_dim(d0, m, 1),
      block_depth |-> mip_block_depth(mip_dim(d0, m, 1), block_depth(d0))] :
        d0 \in {1, 2, 3, MaxAddressDepth - 1, MaxAddressDepth}, m \in {0, 1}}

\* Mip levels of one pixel, of one complete GOB and of MaxGobsX - 1 and
\* MaxGobsX by MaxGobsY GOBs whose last column and row of GOBs are partially
\* filled.
AddressShapes ==
    {[width |-> 1, height |-> 1, bytes_per_pixel |-> 4],
     [width |-> 16, height |-> 8, bytes_per_pixel |-> 4],
     [width |-> 16 * (MaxGobsX - 2) + 8, height |-> 8 * (MaxGobsY - 1) + 1,
      bytes_per_pixel |-> 4],
     [width |-> 16 * (MaxGobsX - 1) + 8, height |-> 8 * (MaxGobsY - 1) + 1,
      bytes_per_pixel |-> 4]}

\* The 2D mip levels with the largest width and the largest height.
LargestAddressShapes ==
    {[width |-> U32_MAX, height |-> 1, bytes_per_pixel |-> 1],
     [width |-> 1, height |-> U32_MAX, bytes_per_pixel |-> 1]}

\* Every byte of a mip level of at most one GOB; of a larger one the bytes in
\* the corners of the GOBs (or of the part of them inside the surface), in
\* every slice; of the largest ones the first GOBs and the last one.
AddressCoordinates(width_in_bytes, height, depth) ==
    LET whole == width_in_bytes <= GOB_WIDTH_IN_BYTES
                    /\ height <= GOB_HEIGHT_IN_BYTES /\ depth = 1
        xs == {x \in 0 .. width_in_bytes - 1 :
                  \/ whole
                  \/ /\ \/ x % GOB_WIDTH_IN_BYTES \in {0, GOB_WIDTH_IN_BYTES - 1}
                        \/ x = width_in_bytes - 1
                     /\ \/ x \div GOB_WIDTH_IN_BYTES < MaxGobsX
                        \/ x \div GOB_WIDTH_IN_BYTES
                               = (width_in_bytes - 1) \div GOB_WIDTH_IN_BYTES}
        ys == {y \in 0 .. height - 1 :
                  \/ whole
                  \/ /\ \/ y % GOB_HEIGHT_IN_BYTES \in {0, GOB_HEIGHT_IN_BYTES - 1}
                        \/ y = height - 1
                     /\ \/ y \div GOB_HEIGHT_IN_BYTES < MaxGobsY
                        \/ y \div GOB_HEIGHT_IN_BYTES
                               = (height - 1) \div GOB_HEIGHT_IN_BYTES}
    IN  {<<x, y, z>> : x \in xs, y \in ys, z \in 0 .. depth - 1}

AddressCalls ==
    UNION {{[fn |-> "swizzle_inner", width |-> s.width, height |-> s.height,
             depth |-> dd.depth, block_height |-> bh, block_depth |-> dd.block_depth,
             bytes_per_pixel |-> s.bytes_per_pixel,
             x |-> c[1], y |-> c[2], z |-> c[3]] :
               c \in AddressCoordinates(s.width * s.bytes_per_pixel, s.height, dd.depth)} :
           s \in AddressShapes, dd \in AddressDepths, bh \in BlockHeight}
    \cup
    UNION {{[fn |-> "swizzle_inner", width |-> s.width, height |-> s.height,
             depth |-> 1, block_height |-> bh, block_depth |-> 1,
             bytes_per_pixel |-> s.bytes_per_pixel,
             x |-> c[1], y |-> c[2], z |-> c[3]] :
               c \in AddressCoordinates(s.width * s.bytes_per_pixel, s.height, 1)} :
           s \in LargestAddressShapes, bh \in BlockHeight}

InitAddress ==
    /\ overflow_checks \in BOOLEAN
    /\ \E c \in AddressCalls : Start(c, Input(0))

NextAddress == ByteAddress

SpecAddress == InitAddress /\ [][NextAddress]_vars

\* ----------------------------------------------------------------- properties
\* The inverse call of a round trip has returned.
RoundTripDone(first_fn) ==
    /\ stage = 2
    /\ pc = "done"
    /\ call.fn = Inverse(first_fn)

\* C1: for a 2D mip (depth 1) and a source x of exactly deswizzled_mip_size
\* bytes, swizzle_block_linear returns Ok(s) and deswizzle_block_linear(s) with
\* the same parameters returns Ok(x).
C1_MipRoundTrip ==
    /\ (/\ pc = "done" /\ stage = 1 /\ call.fn = "swizzle_block_linear"
        /\ call.depth = 1 /\ original.len = CallDeswizzledSize(call))
            => result.tag = "Ok"
    /\ (/\ RoundTripDone("swizzle_block_linear")
        /\ call.depth = 1 /\ original.len = CallDeswizzledSize(call))
            => /\ result.tag = "Ok"
               /\ BufEq(destination, original)

\* A round trip of an odd shape with 12 bytes per pixel that has a complete
\* GOB and partially filled ones.
C1_Witness ==
    /\ RoundTripDone("swizzle_block_linear")
    /\ call.depth = 1
    /\ call.width = MaxWidth
    /\ call.height = MaxHeight
    /\ call.bytes_per_pixel = 12
    /\ call.block_height = 16
    /\ fast_path(0, 0, call.width, call.height, call.bytes_per_pixel)
    /\ original.len = CallDeswizzledSize(call)
    /\ original.len > 0
    /\ result.tag = "Ok"
    /\ BufEq(destination, original)

\* C3 as stated: for a 2D mip and a source y of exactly swizzled_mip_size
\* bytes, deswizzle_block_linear returns Ok(d) and swizzle_block_linear(d)
\* returns Ok(y), byte for byte.
C3_ReverseRoundTrip_AsStated ==
    (/\ RoundTripDone("deswizzle_block_linear")
     /\ call.depth = 1 /\ original.len = CallSwizzledSize(call))
        => /\ result.tag = "Ok"
           /\ BufEq(destination, original)

\* C3: for a 2D mip and a source y of exactly swizzled_mip_size bytes,
\* deswizzle_block_linear returns Ok(d) and swizzle_block_linear(d) returns
\* Ok(s) where s has the length of y, equals y at every offset that holds a
\* byte of the surface and is 0 at every padding offset.
C3_ReverseRoundTrip ==
    /\ (/\ pc = "done" /\ stage = 1 /\ call.fn = "deswizzle_block_linear"
        /\ call.depth = 1 /\ original.len = CallSwizzledSize(call))
            => result.tag = "Ok"
    /\ (/\ RoundTripDone("deswizzle_block_linear")
        /\ call.depth = 1 /\ original.len = CallSwizzledSize(call))
            => /\ result.tag = "Ok"
               /\ destination.len = original.len
               /\ \A i \in 0 .. destination.len - 1 :
                     Get(destination, i) =
                        IF i \in DOMAIN destination.data THEN Get(original, i) ELSE 0

\* A reverse round trip whose tiled buffer has surface bytes and a padding
\* byte that is not 0 in y.
C3_Witness ==
    /\ RoundTripDone("deswizzle_block_linear")
    /\ call.depth = 1
    /\ original.len = CallSwizzledSize(call)
    /\ result.tag = "Ok"
    /\ \E i \in 0 .. destination.len - 1 :
          i \in DOMAIN destination.data /\ Get(destination, i) = Get(original, i)
    /\ \E i \in 0 .. destination.len - 1 :
          i \notin DOMAIN destination.data /\ Get(original, i) # 0

\* C7: no call returns NotEnoughData after it allocated its output buffer.
C7_CheckBeforeAllocate ==
    result.tag = "NotEnoughData" => destination = NoBuf

\* One of the six counts of the call is 0.
SomeCountIsZero(c) ==
    0 \in {c.width, c.height, c.depth, c.bytes_per_pixel, c.mipmap_count, c.layer_count}

\* A surface call with nonzero counts that passes validate_surface.
ValidSurfaceCall(c) ==
    /\ IsSurface(c.fn)
    /\ ~ SomeCountIsZero(c)
    /\ validate_surface(c.width, c.height, c.depth, c.bytes_per_pixel, c.mipmap_count)

\* C2: for a valid surface and a source x of exactly deswizzled_surface_size
\* bytes, swizzle_surface returns Ok(s) and deswizzle_surface(s) with the same
\* parameters returns Ok(x); 3D surfaces, several mips and several layers
\* included.
C2_SurfaceRoundTrip ==
    /\ (/\ pc = "done" /\ stage = 1 /\ call.fn = "swizzle_surface"
        /\ ValidSurfaceCall(call) /\ original.len = CallDeswizzledSize(call))
            => result.tag = "Ok"
    /\ (/\ RoundTripDone("swizzle_surface")
        /\ ValidSurfaceCall(call) /\ original.len = CallDeswizzledSize(call))
            => /\ result.tag = "Ok"
               /\ BufEq(destination, original)

\* C5: with all counts nonzero and validation passing, a surface function
\* returns NotEnoughData exactly when the source is shorter than the size of
\* the whole surface on the source side, with that size as expected_size and
\* source.len() as actual_size; otherwise it returns Ok.
C5_GracefulShorts ==
    (/\ pc = "done" /\ stage = 1 /\ ValidSurfaceCall(call))
        => LET size == IF call.fn = "swizzle_surface"
                       THEN CallDeswizzledSize(call)
                       ELSE CallSwizzledSize(call)
           IN  IF source.len < size
               THEN result = NotEnoughData(size, source.len)
               ELSE result.tag = "Ok"

\* C4: when any of the six counts is 0, swizzle_surface and deswizzle_surface
\* return Ok(empty buffer), whatever the other arguments and the source length
\* are.
C4_GracefulZeros ==
    (/\ pc = "done" /\ IsSurface(call.fn) /\ SomeCountIsZero(call))
        => /\ result = Ok
           /\ destination = ZeroVec(0)

\* An empty result for a call whose other arguments alone would be invalid
\* and whose source is empty.
C4_Witness ==
    /\ pc = "done"
    /\ call.fn = "deswizzle_surface"
    /\ call.layer_count = 0
    /\ call.width = U32_MAX
    /\ call.height = U32_MAX
    /\ call.depth = U32_MAX
    /\ call.bytes_per_pixel = 4
    /\ call.mipmap_count = U32_BITS + 1
    /\ source.len = 0
    /\ result = Ok
    /\ destination = ZeroVec(0)

\* a * b does not fit the word, for a and b that do.
ProductOverflows(a, b) == b # 0 /\ a > U32_MAX \div b

\* width * height * depth * bytes_per_pixel does not fit the word.
VolumeOverflows(c) ==
    \/ ProductOverflows(c.width, c.height)
    \/ /\ ~ ProductOverflows(c.width, c.height)
       /\ \/ ProductOverflows(c.width * c.height, c.depth)
          \/ /\ ~ ProductOverflows(c.width * c.height, c.depth)
             /\ ProductOverflows(c.width * c.height * c.depth, c.bytes_per_pixel)

\* C6: with all six counts nonzero, a surface function returns InvalidSurface
\* with the caller's values if and only if width*height*depth*bpp overflows,
\* or width*bpp overflows, or depth + depth/2 overflows, or mipmap_count > 32,
\* whatever the source length is.
C6_InvalidSurface ==
    (/\ pc = "done" /\ IsSurface(call.fn) /\ ~ SomeCountIsZero(call))
        => /\ result.tag = "InvalidSurface"
                <=> \/ VolumeOverflows(call)
                    \/ ProductOverflows(call.width, call.bytes_per_pixel)
                    \/ call.depth + (call.depth \div 2) > U32_MAX
                    \/ call.mipmap_count > 32
           /\ result.tag = "InvalidSurface"
                => /\ result.width = call.width
                   /\ result.height = call.height
                   /\ result.depth = call.depth
                   /\ result.bytes_per_pixel = call.bytes_per_pixel
                   /\ result.mipmap_count = call.mipmap_count

\* A call that is both invalid and too short returns InvalidSurface.
C6_Witness ==
    /\ pc = "done"
    /\ IsSurface(call.fn)
    /\ ~ SomeCountIsZero(call)
    /\ call.width = U32_MAX
    /\ call.height = U32_MAX
    /\ call.mipmap_count = 1
    /\ source.len = 0
    /\ result = InvalidSurface(call)

\* C8: no surface call panics, and no integer operation of the size
\* functions overflows for a call that passed validate_surface.
C8_OverflowSafety ==
    IsSurface(call.fn)
        => /\ result.tag # "panic"
           /\ pc = "destination" => ~ CallOverflows(call)

\* C9: swizzled_surface_size and deswizzled_surface_size return 0 whenever
\* one of the six counts is 0.
C9_DegenerateSizes ==
    (/\ pc = "done"
     /\ call.fn \in {"swizzled_surface_size", "deswizzled_surface_size"}
     /\ SomeCountIsZero(call))
        => result = Size(0)

\* C10: swizzled_mip_size is at least deswizzled_mip_size for the same
\* arguments, and swizzled_surface_size is at least deswizzled_surface_size
\* for the same arguments when layer_count is 1 and mipmap_count is at most 32.
C10_SizeMonotonicity ==
    /\ (pc = "done" /\ call.fn = "swizzled_mip_size")
            => /\ result.tag = "size"
               /\ result.value >= deswizzled_mip_size(call.width, call.height,
                                                      call.depth, call.bytes_per_pixel)
    /\ (/\ pc = "done" /\ call.fn = "swizzled_surface_size"
        /\ call.layer_count = 1 /\ call.mipmap_count <= 32)
            => /\ result.tag = "size"
               /\ result.value >= deswizzled_surface_size(
                        call.width, call.height, call.depth, call.block_dim,
                        call.bytes_per_pixel, call.mipmap_count, call.layer_count)


\* C11: every size that swizzled_mip_size returns is a multiple of the 512
\* bytes of a GOB, and so is every size that swizzled_surface_size returns,
\* for one layer (no padding) and for several layers (padded).
C11_GobAlignment ==
    (pc = "done" /\ call.fn \in {"swizzled_mip_size", "swizzled_surface_size"}
                 /\ result.tag = "size")
        => result.value % GOB_SIZE_IN_BYTES = 0

\* A padded surface of several layers and several mip levels whose size is a
\* positive multiple of 512 larger than the plain sum over the layers.
C11_Witness ==
    /\ pc = "done"
    /\ result.tag = "size"
    /\ result.value > GOB_SIZE_IN_BYTES
    /\ result.value % GOB_SIZE_IN_BYTES = 0
    /\ call.fn = "swizzled_surface_size"
    /\ call.layer_count = MaxLayers
    /\ call.mipmap_count = MaxMips
    /\ result.value >
           call.layer_count
             * SwizzledMipSum(call.width, call.height, call.depth, call.block_dim,
                   surface_block_height_mip0(call.height, call.depth, call.block_dim,
                                             call.block_height),
                   call.bytes_per_pixel, call.mipmap_count)

\* C12: the buffer a surface function returns with Ok has exactly
\* swizzled_surface_size bytes (swizzle_surface) or deswizzled_surface_size
\* bytes (deswizzle_surface) of the same arguments, also for a source longer
\* than required; it has this length from its allocation on, through every
\* mip level and layer, so it is never resized.
C12_OutputLength ==
    (IsSurface(call.fn) /\ ~ SomeCountIsZero(call)) =>
        /\ (pc = "done" /\ result.tag = "Ok") => destination # NoBuf
        /\ destination # NoBuf =>
               destination.len =
                   IF call.fn = "swizzle_surface"
                   THEN swizzled_surface_size(
                            call.width, call.height, call.depth, call.block_dim,
                            call.block_height, call.bytes_per_pixel,
                            call.mipmap_count, call.layer_count)
                   ELSE deswizzled_surface_size(
                            call.width, call.height, call.depth, call.block_dim,
                            call.bytes_per_pixel, call.mipmap_count, call.layer_count)

\* deswizzle_surface returned Ok for several layers and mip levels from a
\* source one byte longer than required; the output is shorter than the
\* source.
C12_Witness ==
    /\ pc = "done"
    /\ stage = 1
    /\ result.tag = "Ok"
    /\ call.fn = "deswizzle_surface"
    /\ call.layer_count = MaxLayers
    /\ call.mipmap_count = MaxMips
    /\ source.len = 1 + swizzled_surface_size(
                            call.width, call.height, call.depth, call.block_dim,
                            call.block_height, call.bytes_per_pixel,
                            call.mipmap_count, call.layer_count)
    /\ destination.len > 0
    /\ destination.len < source.len

\* C13: with block height None and 4x4 blocks the size functions return the
\* reference values: (width, height, bpp, mips, layers) = (100,100,8,7,1)
\* gives 12800 swizzled and 6864 deswizzled bytes, (1028,256,16,11,1) gives
\* 360960 and 351376, (8192,2048,16,1,1) gives 16777216 twice,
\* (2048,2048,16,12,1) gives 5594624 and 5592432, (128,128,16,8,6) gives
\* 147456 and 131232, (16,16,16,5,6) gives 15360 and 2208.
C13_ReferenceSizes ==
    \A r \in ReferenceSizes :
        (/\ pc = "done"
         /\ call.width = r.width /\ call.height = r.height /\ call.depth = 1
         /\ call.block_dim = block_4x4 /\ call.block_height = 0
         /\ call.bytes_per_pixel = r.bytes_per_pixel
         /\ call.mipmap_count = r.mipmap_count
         /\ call.layer_count = r.layer_count)
        => /\ call.fn = "swizzled_surface_size" => result = Size(r.swizzled)
           /\ call.fn = "deswizzled_surface_size" => result = Size(r.deswizzled)

\* The size of the six layers of 128x128 with eight mip levels was returned.
C13_Witness ==
    /\ pc = "done"
    /\ call.fn = "swizzled_surface_size"
    /\ call.width = 128 /\ call.height = 128 /\ call.depth = 1
    /\ call.block_dim = block_4x4 /\ call.block_height = 0
    /\ call.bytes_per_pixel = 16 /\ call.mipmap_count = 8 /\ call.layer_count = 6
    /\ result = Size(147456)

\* C14: for every block height bh0 of mip 0 and every mip height,
\* mip_block_height returns (no panic of unwrap) a BlockHeight value b <= bh0
\* with b = 1 or mip_height > (b/2)*8, and every value between b and bh0 was
\* halved because mip_height <= (that value / 2) * 8.
C14_MipBlockHeight ==
    (pc = "done" /\ call.fn = "mip_block_height") =>
        /\ result.tag = "value"
        /\ result.value \in BlockHeight
        /\ result.value <= call.block_height_mip0
        /\ result.value = 1 \/ call.mip_height > (result.value \div 2) * 8
        /\ \A b \in BlockHeight :
               (result.value < b /\ b <= call.block_height_mip0)
                   => call.mip_height <= (b \div 2) * 8

\* ThirtyTwo was halved at least once and not down to One.
C14_Witness ==
    /\ pc = "done"
    /\ call.fn = "mip_block_height"
    /\ call.block_height_mip0 = 32
    /\ result.tag = "value"
    /\ result.value \in {2, 4, 8, 16}
    /\ call.mip_height = (result.value \div 2) * 8 + 1

\* C15 as stated: block_height_mip0(h) returns the largest value b of
\* {1,2,4,8,16,32} with b * 8 <= h + h/2.
C15_LargestBlockHeight_AsStated ==
    (pc = "done" /\ call.fn = "block_height_mip0") =>
        /\ result.tag = "value"
        /\ result.value \in BlockHeight
        /\ result.value * 8 <= call.height + call.height \div 2
        /\ \A b \in BlockHeight :
               b * 8 <= call.height + call.height \div 2 => b <= result.value

\* C15: block_height_mip0(h) returns the largest value b of {1,2,4,8,16}
\* with b * 8 <= k, and One when there is none (k < 8), where k is h + h/2
\* as the word holds it; when the sum does not fit the word, a build with
\* overflow checks panics and one without uses the wrapped sum.
C15_LargestBlockHeight ==
    (pc = "done" /\ call.fn = "block_height_mip0") =>
        LET sum == call.height + call.height \div 2
            k == sum % U32_MOD
            fitting == {b \in BlockHeight \ {32} : b * 8 <= k}
        IN  IF overflow_checks /\ sum > U32_MAX
            THEN result = Panic
            ELSE /\ result.tag = "value"
                 /\ IF fitting = {}
                    THEN result.value = 1
                    ELSE /\ result.value \in fitting
                         /\ \A b \in fitting : b <= result.value

\* Sixteen was returned for a height for which ThirtyTwo also fits.
C15_Witness ==
    /\ pc = "done"
    /\ call.fn = "block_height_mip0"
    /\ call.height <= MaxBlockRows
    /\ 32 * 8 <= call.height + call.height \div 2
    /\ result = Returned(16)

\* C16: with k = h + h/2, block_height_mip0(h) is 16 if k >= 128, else 8 if
\* k >= 64, else 4 if k >= 32, else 2 if k >= 16, else 1; it never returns
\* 32 and is monotonically non-decreasing in h.
C16_ThresholdTable ==
    (pc = "done" /\ call.fn = "block_height_mip0") =>
        LET k == call.height + call.height \div 2
        IN  /\ result = Returned(IF k >= 128 THEN 16
                                 ELSE IF k >= 64 THEN 8
                                 ELSE IF k >= 32 THEN 4
                                 ELSE IF k >= 16 THEN 2
                                 ELSE 1)
            /\ result.value # 32
            /\ \A h \in BlockRows :
                   h <= call.height => block_height_mip0(h) <= result.value

\* C16 for the heights whose height + height / 2 fits the word.
C16_ThresholdTable_InWord ==
    (/\ pc = "done"
     /\ call.fn = "block_height_mip0"
     /\ call.height + call.height \div 2 <= U32_MAX)
    => C16_ThresholdTable

\* The offsets of the claim C17 for layer l and mip level m of the call c:
\* linear is l * S + the deswizzled sizes of the mips below m, tiled is
\* l * A + the swizzled sizes of the mips below m, with S and T the sums over
\* all mips and A = align_layer_size(T) for more than one layer.
LayoutOffsets(c, l, m) ==
    LET bh0 == surface_block_height_mip0(c.height, c.depth, c.block_dim, c.block_height)
        S == DeswizzledMipSum(c.width, c.height, c.depth, c.block_dim,
                              c.bytes_per_pixel, c.mipmap_count)
        T == SwizzledMipSum(c.width, c.height, c.depth, c.block_dim, bh0,
                            c.bytes_per_pixel, c.mipmap_count)
        A == IF c.layer_count > 1
             THEN align_layer_size(T, c.height, c.depth, bh0, 1)
             ELSE T
    IN  [linear |-> l * S + DeswizzledMipSum(c.width, c.height, c.depth, c.block_dim,
                                             c.bytes_per_pixel, m),
         tiled |-> l * A + SwizzledMipSum(c.width, c.height, c.depth, c.block_dim, bh0,
                                          c.bytes_per_pixel, m),
         padding |-> A - T]

\* C17: the data is layer-major then mip-major: while layer l, mip m is
\* transformed, the offset on the deswizzled side is l*S + the sum of
\* deswizzled_mip_size over the mips below m (no padding anywhere), and the
\* offset on the swizzled side is l*A + the sum of swizzled_mip_size over the
\* mips below m, with A the aligned layer size for layer_count > 1 (no
\* padding between the mips of a layer).
C17_LayoutOrder ==
    (IsSurface(call.fn) /\ pc \in {"mip", "gob"} /\ mip < call.mipmap_count) =>
        LET at == LayoutOffsets(call, layer, mip)
        IN  IF IsDeswizzle(call.fn)
            THEN src_offset = at.tiled /\ dst_offset = at.linear
            ELSE src_offset = at.linear /\ dst_offset = at.tiled

\* swizzle_surface is at the last mip level of the second layer of a surface
\* whose layers are padded.
C17_Witness ==
    /\ call.fn = "swizzle_surface"
    /\ stage = 1
    /\ pc = "gob"
    /\ layer = 1
    /\ mip = MaxMips - 1
    /\ call.mipmap_count = MaxMips
    /\ LayoutOffsets(call, layer, mip).padding > 0
    /\ dst_offset = LayoutOffsets(call, layer, mip).tiled
    /\ src_offset = LayoutOffsets(call, layer, mip).linear

\* The sums of the claim C18 over the mip levels below n of the call c,
\* written with the mip sizes themselves.
RECURSIVE MipSizesBelow(_, _, _)
MipSizesBelow(c, n, tiled) ==
    IF n = 0 THEN 0
    ELSE LET mip_width == mip_dim(c.width, n - 1, c.block_dim.width)
             mip_height == mip_dim(c.height, n - 1, c.block_dim.height)
             mip_depth == mip_dim(c.depth, n - 1, c.block_dim.depth)
             bh0 == surface_block_height_mip0(c.height, c.depth, c.block_dim,
                                              c.block_height)
         IN  MipSizesBelow(c, n - 1, tiled)
             + IF tiled
               THEN swizzled_mip_size(mip_width, mip_height, mip_depth,
                                      mip_block_height(mip_height, bh0),
                                      c.bytes_per_pixel)
               ELSE deswizzled_mip_size(mip_width, mip_height, mip_depth,
                                        c.bytes_per_pixel)

\* C18: swizzled_surface_size is the plain sum of the swizzled mip sizes for
\* layer_count = 1 and layer_count * align_layer_size(sum, height, depth,
\* block_height_mip0, 1) for layer_count > 1 (padding counted after the last
\* layer too); deswizzled_surface_size is layer_count times the sum of the
\* deswizzled mip sizes.
C18_LayerPadding ==
    (pc = "done" /\ result.tag = "size") =>
        /\ (call.fn = "swizzled_surface_size" /\ call.layer_count = 1)
               => result.value = MipSizesBelow(call, call.mipmap_count, TRUE)
        /\ (call.fn = "swizzled_surface_size" /\ call.layer_count > 1)
               => result.value =
                      call.layer_count
                        * align_layer_size(
                              MipSizesBelow(call, call.mipmap_count, TRUE),
                              call.height, call.depth,
                              surface_block_height_mip0(call.height, call.depth,
                                  call.block_dim, call.block_height), 1)
        /\ call.fn = "deswizzled_surface_size"
               => result.value =
                      call.layer_count * MipSizesBelow(call, call.mipmap_count, FALSE)

\* The size of one layer was returned unaligned although alignment would
\* have padded it.
C18_Witness ==
    /\ pc = "done"
    /\ result.tag = "size"
    /\ call.fn = "swizzled_surface_size"
    /\ call.layer_count = 1
    /\ call.mipmap_count = MaxMips
    /\ result.value = MipSizesBelow(call, call.mipmap_count, TRUE)
    /\ result.value <
           align_layer_size(result.value, call.height, call.depth,
               surface_block_height_mip0(call.height, call.depth, call.block_dim,
                                         call.block_height), 1)

\* ceil(a / b) over the integers.
Ceil(a, b) == (a + b - 1) \div b

\* 2^mip, for the mip levels that the word cannot shift to, a value above
\* every dimension.
TwoToThe(m) == IF m > WordBits THEN 2^(WordBits + 1) ELSE 2^m

\* C19 as stated: for dim >= 1, block size b >= 1 and mip index m in 0..32 the
\* mip dimension max(div_round_up(dim >> m, b), 1) equals the mip dimension
\* of the glossary, max(ceil(dim / 2^m), 1), expressed in blocks of b.
C19_MipDimensions_AsStated ==
    (pc = "done" /\ call.fn = "mip_dim") =>
        result = Returned(Max2(Ceil(Max2(Ceil(call.dim, TwoToThe(call.mip)), 1),
                                    call.block), 1))

\* C19: the mip dimension max(div_round_up(dim >> m, b), 1) equals
\* max(ceil(floor(dim / 2^m) / b), 1): the halvings round down, only the
\* division into blocks rounds up. When (dim >> m) + b does not fit the
\* word, a build with overflow checks panics and one without divides the
\* wrapped (dim >> m) + b - 1.
C19_MipDimensions ==
    (pc = "done" /\ call.fn = "mip_dim") =>
        LET halved == call.dim \div TwoToThe(call.mip)
        IN  IF halved + call.block <= U32_MAX
            THEN result = Returned(Max2(Ceil(halved, call.block), 1))
            ELSE IF overflow_checks
                 THEN result = Panic
                 ELSE result = Returned(Max2(((halved + call.block - 1) % U32_MOD)
                                                 \div call.block, 1))

\* An odd dimension was halved: rounding down and rounding up differ.
C19_Witness ==
    /\ pc = "done"
    /\ call.fn = "mip_dim"
    /\ call.mip = 1
    /\ call.block = 1
    /\ call.dim = 5
    /\ result = Returned(2)
    /\ Ceil(call.dim, TwoToThe(call.mip)) = 3

\* The block height of mip 0 that the claim C20 names for the call c.
SelectedBlockHeight(c) ==
    IF c.depth = 1
    THEN IF c.block_height = 0
         THEN block_height_mip0(div_round_up(c.height, c.block_dim.height))
         ELSE c.block_height
    ELSE 1

\* C20: the surface functions use block_height_mip0(div_round_up(height,
\* block_dim.height)) when depth = 1 and the argument is None, the argument b
\* when depth = 1 and it is Some(b), and One when depth != 1, whatever the
\* argument: the sizes and the arguments of every mip level are then the same
\* for every value of the argument. The transform and the size function pick
\* the same value.
C20_BlockHeightSelection ==
    IsSurface(call.fn) =>
        /\ CallBlockHeightMip0(call) = SelectedBlockHeight(call)
        /\ surface_block_height_mip0(call.height, call.depth, call.block_dim,
                                     call.block_height) = SelectedBlockHeight(call)
        /\ (pc \in {"mip", "gob"} /\ mip < call.mipmap_count)
               => Cur(call, mip, src_offset, dst_offset).block_height =
                      mip_block_height(mip_dim(call.height, mip, call.block_dim.height),
                                       SelectedBlockHeight(call))
        /\ call.depth # 1 =>
               \A b \in {0} \cup BlockHeight :
                   LET other == [call EXCEPT !.block_height = b]
                   IN  /\ CallSwizzledSize(other) = CallSwizzledSize(call)
                       /\ CallDeswizzledSize(other) = CallDeswizzledSize(call)
                       /\ (pc \in {"mip", "gob"} /\ mip < call.mipmap_count)
                              => Cur(other, mip, src_offset, dst_offset)
                                     = Cur(call, mip, src_offset, dst_offset)

\* A 3D surface called with Sixteen is at a mip level that Sixteen would
\* tile with a block height of two and that is tiled with One.
C20_Witness ==
    /\ IsSurface(call.fn)
    /\ call.depth # 1
    /\ call.block_height = 16
    /\ pc = "gob"
    /\ mip_block_height(mip_dim(call.height, mip, call.block_dim.height), 16) > 1
    /\ Cur(call, mip, src_offset, dst_offset).block_height = 1

\* C21: for every mip shape and every byte coordinate inside it the swizzled
\* offset, the sum of gob_address_z, gob_address_y, gob_address_x and
\* gob_offset, is below swizzled_mip_size of the shape and the linear offset
\* is below deswizzled_mip_size, for the block depth block_depth(d) and for
\* the block depths mip_block_depth gives the mips of a surface, so that no
\* index of swizzle_inner is out of bounds.
C21_InBounds ==
    (pc = "done" /\ call.fn = "swizzle_inner") =>
        /\ result.tag = "address"
        /\ result.swizzled_offset =
               result.offset_z + result.offset_y + result.offset_x + result.gob_offset
        /\ result.swizzled_offset >= 0
        /\ result.swizzled_offset <
               swizzled_mip_size(call.width, call.height, call.depth,
                                 call.block_height, call.bytes_per_pixel)
        /\ result.linear_offset >= 0
        /\ result.linear_offset <
               deswizzled_mip_size(call.width, call.height, call.depth,
                                   call.bytes_per_pixel)

\* C21 for the mip shapes whose roundings fit the word.
C21_InBounds_InWord ==
    (/\ pc = "done"
     /\ call.fn = "swizzle_inner"
     /\ ~ swizzled_mip_size_overflows(call.width, call.height, call.depth,
                                      call.block_height, call.bytes_per_pixel))
    => C21_InBounds
\* The address of the GOB (gx, gy) of slice z of the mip level of call c.
GobAddressOf(c, gx, gy, z) ==
    LET a == address_terms(gx * GOB_WIDTH_IN_BYTES, gy * GOB_HEIGHT_IN_BYTES, z,
                           c.width, c.height, c.bytes_per_pixel, c.block_height,
                           c.block_depth)
    IN  a.offset_z + a.offset_y + a.offset_x

\* C22: within one mip level two distinct byte coordinates never map to the
\* same swizzled offset, for every block height, every width in GOBs and every
\* block depth the safe API passes. The swizzled offset is the address of the
\* byte's GOB plus gob_offset of the position inside the GOB. The byte's
\* gob_offset is below the GOB size and differs from the gob_offset of every
\* other position of the GOB (stated for the 2D levels: gob_offset takes
\* nothing but the position), and the address of every GOB that swizzle_inner
\* visits after the byte's GOB is at least one GOB away from the address of
\* the byte's GOB (stated for the first byte of each GOB: the address is the
\* same for every byte of the GOB).
C22_InjectiveAddress ==
    (pc = "done" /\ call.fn = "swizzle_inner" /\ result.tag = "address") =>
        LET gx0 == call.x \div GOB_WIDTH_IN_BYTES
            gy0 == call.y \div GOB_HEIGHT_IN_BYTES
            here == result.offset_z + result.offset_y + result.offset_x
        IN  /\ result.gob_offset \in 0 .. GOB_SIZE_IN_BYTES - 1
            /\ result.swizzled_offset = here + result.gob_offset
            /\ here = GobAddressOf(call, gx0, gy0, call.z)
            /\ call.depth = 1 =>
                  \A x \in 0 .. GOB_WIDTH_IN_BYTES - 1, y \in 0 .. GOB_HEIGHT_IN_BYTES - 1 :
                      <<x, y>> # <<call.x % GOB_WIDTH_IN_BYTES, call.y % GOB_HEIGHT_IN_BYTES>>
                          => gob_offset(x, y) # result.gob_offset
            /\ (call.x % GOB_WIDTH_IN_BYTES = 0 /\ call.y % GOB_HEIGHT_IN_BYTES = 0) =>
                  \A gx \in 0 .. NumGobsX(call.width, call.bytes_per_pixel) - 1,
                     gy \in 0 .. NumGobsY(call.height) - 1,
                     z \in 0 .. call.depth - 1 :
                      (\/ z > call.z
                       \/ z = call.z /\ gy > gy0
                       \/ z = call.z /\ gy = gy0 /\ gx > gx0)
                          => \/ GobAddressOf(call, gx, gy, z) >= here + GOB_SIZE_IN_BYTES
                             \/ GobAddressOf(call, gx, gy, z) + GOB_SIZE_IN_BYTES <= here

\* A byte of the second block of slices of a mip level of depth 10 with block
\* depth 8, three GOBs wide (not a power of two) and three GOBs high.
C22_Witness ==
    /\ pc = "done"
    /\ call.fn = "swizzle_inner"
    /\ result.tag = "address"
    /\ call.depth = 10
    /\ call.block_depth = 8
    /\ call.z = 9
    /\ call.block_height = 2
    /\ NumGobsX(call.width, call.bytes_per_pixel) = 3
    /\ NumGobsY(call.height) = 3
    /\ call.x = GOB_WIDTH_IN_BYTES
    /\ call.y = GOB_HEIGHT_IN_BYTES


\* The bytes the copies of a GOB move, as pairs of a destination address and
\* the source address it is loaded from.
MovedBytes(deswizzle, rows) ==
    UNION {UNION {{<<DstOf(deswizzle, rows[i][j]) + k, SrcOf(deswizzle, rows[i][j]) + k>> :
                      k \in 0 .. rows[i][j].n - 1} :
                  j \in DOMAIN rows[i]} :
           i \in DOMAIN rows}

\* The number of bytes the copies of a GOB move.
RECURSIVE MovedCount(_, _, _)
MovedCount(rows, i, j) ==
    IF i > Len(rows) THEN 0
    ELSE IF j > Len(rows[i]) THEN MovedCount(rows, i + 1, 1)
    ELSE rows[i][j].n + MovedCount(rows, i, j + 1)

\* C23: for a complete 64x8 GOB the fast path (deswizzle_complete_gob,
\* swizzle_complete_gob) moves every one of the 512 bytes exactly once, moves
\* byte (x, y) of the GOB between its linear address and the GOB offset
\* gob_offset(x, y), which is what the slow path swizzle_deswizzle_gob does
\* byte by byte, and stores the same bytes as the slow path; GOB_ROW_OFFSETS[y]
\* is gob_offset(0, y); the swizzle direction is the inverse permutation of the
\* deswizzle direction.
C23_FastPathIsSlowPath ==
    /\ \A y \in 0 .. GOB_HEIGHT_IN_BYTES - 1 : GOB_ROW_OFFSETS[y + 1] = gob_offset(0, y)
    /\ (/\ pc = "gob"
        /\ IsBlockLinear(call.fn)
        /\ gob <= NumGobSteps(call.width, call.height, call.depth, call.bytes_per_pixel)
        /\ LET g == GobStep(gob, call.width, call.height, call.bytes_per_pixel)
           IN  fast_path(g.x0, g.y0, call.width, call.height, call.bytes_per_pixel))
       =>
       LET p == Cur(call, mip, src_offset, dst_offset)
           g == GobStep(gob, p.width, p.height, p.bytes_per_pixel)
           row_size == p.width * p.bytes_per_pixel
           lin == (g.z0 * p.width * p.height * p.bytes_per_pixel) + (g.y0 * row_size) + g.x0
           swz == gob_address(g, p.width, p.height, p.bytes_per_pixel, p.block_height,
                              p.block_depth)
           fast == complete_gob(lin, swz, row_size)
           slow == swizzle_deswizzle_gob(g.x0, g.y0, g.z0, p.width, p.height,
                                         p.bytes_per_pixel, swz)
           deswizzle == IsDeswizzle(call.fn)
           empty == [a \in {} |-> 0]
       IN  /\ MovedCount(fast, 1, 1) = GOB_SIZE_IN_BYTES
           /\ Cardinality({m[1] : m \in MovedBytes(deswizzle, fast)}) = GOB_SIZE_IN_BYTES
           /\ Cardinality({m[2] : m \in MovedBytes(deswizzle, fast)}) = GOB_SIZE_IN_BYTES
           /\ MovedBytes(TRUE, fast)
                  = {<<lin + y * row_size + x, swz + gob_offset(x, y)>> :
                        x \in 0 .. GOB_WIDTH_IN_BYTES - 1, y \in 0 .. GOB_HEIGHT_IN_BYTES - 1}
           /\ MovedBytes(deswizzle, fast) = MovedBytes(deswizzle, slow)
           /\ MovedBytes(FALSE, fast) = {<<m[2], m[1]>> : m \in MovedBytes(TRUE, fast)}
           /\ ApplyRows(deswizzle, fast, 1, source, p.src_base, empty, p.dst_base)
                  = ApplyRows(deswizzle, slow, 1, source, p.src_base, empty, p.dst_base)

\* swizzle_inner is about to tile a complete GOB that is not the first one of
\* the surface and holds bytes that differ.
C23_Witness ==
    /\ pc = "gob"
    /\ call.fn = "swizzle_block_linear"
    /\ call.depth = MaxDepth
    /\ gob > 1
    /\ gob <= NumGobSteps(call.width, call.height, call.depth, call.bytes_per_pixel)
    /\ LET g == GobStep(gob, call.width, call.height, call.bytes_per_pixel)
           lin == (g.z0 * call.width * call.height * call.bytes_per_pixel)
                    + (g.y0 * call.width * call.bytes_per_pixel) + g.x0
       IN  /\ fast_path(g.x0, g.y0, call.width, call.height, call.bytes_per_pixel)
           /\ g.z0 > 0
           /\ Get(source, lin) # Get(source, lin + 1)

\* swizzle_inner is at a GOB step of the mip level.
AtGobStep ==
    /\ pc = "gob"
    /\ LET p == Cur(call, mip, src_offset, dst_offset)
       IN  gob <= NumGobSteps(p.width, p.height, p.depth, p.bytes_per_pixel)

\* The GOB of the step lies inside the surface: x0 + 64 <= width*bpp and
\* y0 + 8 <= height.
GobIsComplete ==
    LET p == Cur(call, mip, src_offset, dst_offset)
        g == GobStep(gob, p.width, p.height, p.bytes_per_pixel)
    IN  /\ g.x0 + GOB_WIDTH_IN_BYTES <= p.width * p.bytes_per_pixel
        /\ g.y0 + GOB_HEIGHT_IN_BYTES <= p.height

\* The GOB of the step ends before the last byte column and the last row of
\* the surface: x0 + 64 < width*bpp and y0 + 8 < height.
GobIsInterior ==
    LET p == Cur(call, mip, src_offset, dst_offset)
        g == GobStep(gob, p.width, p.height, p.bytes_per_pixel)
    IN  /\ g.x0 + GOB_WIDTH_IN_BYTES < p.width * p.bytes_per_pixel
        /\ g.y0 + GOB_HEIGHT_IN_BYTES < p.height

\* The copies of the GOB step are those of the fast path
\* (deswizzle_complete_gob, swizzle_complete_gob).
TakesFastPath ==
    LET p == Cur(call, mip, src_offset, dst_offset)
        g == GobStep(gob, p.width, p.height, p.bytes_per_pixel)
    IN  GobRows(g, p.width, p.height, p.bytes_per_pixel, p.block_height, p.block_depth)
            = complete_gob((g.z0 * p.width * p.height * p.bytes_per_pixel)
                              + (g.y0 * p.width * p.bytes_per_pixel) + g.x0,
                           gob_address(g, p.width, p.height, p.bytes_per_pixel,
                                       p.block_height, p.block_depth),
                           p.width * p.bytes_per_pixel)

\* The copies of the GOB step are those of the slow path
\* (swizzle_deswizzle_gob).
TakesSlowPath ==
    LET p == Cur(call, mip, src_offset, dst_offset)
        g == GobStep(gob, p.width, p.height, p.bytes_per_pixel)
    IN  GobRows(g, p.width, p.height, p.bytes_per_pixel, p.block_height, p.block_depth)
            = swizzle_deswizzle_gob(g.x0, g.y0, g.z0, p.width, p.height,
                                    p.bytes_per_pixel,
                                    gob_address(g, p.width, p.height, p.bytes_per_pixel,
                                                p.block_height, p.block_depth))

\* C24 as stated: the fast path is taken for exactly the GOB steps with
\* x0 + 64 <= width*bpp and y0 + 8 <= height, and the slow path only for the
\* GOBs that extend past the surface.
C24_PathSelection_AsStated ==
    AtGobStep =>
        /\ TakesFastPath <=> GobIsComplete
        /\ TakesSlowPath <=> ~ GobIsComplete

\* C24: the fast path is taken for exactly the GOB steps with
\* x0 + 64 < width*bpp and y0 + 8 < height; every other GOB takes the slow
\* path, the complete GOBs that end at the right or bottom edge of the surface
\* among them.
C24_PathSelection ==
    AtGobStep =>
        /\ TakesFastPath <=> GobIsInterior
        /\ TakesSlowPath <=> ~ GobIsInterior

\* swizzle_inner is about to take the slow path for a complete GOB that ends
\* at the bottom edge of the surface.
C24_Witness ==
    /\ AtGobStep
    /\ GobIsComplete
    /\ ~ GobIsInterior
    /\ TakesSlowPath
    /\ ~ TakesFastPath
    /\ call.height = GOB_HEIGHT_IN_BYTES

\* The copies of the fast path for the GOB of the step, relative to the start
\* of the GOB on both sides.
FastPathCopies == complete_gob(0, 0, call.width * call.bytes_per_pixel)

\* swizzle_inner is about to take the fast path of a single-mip transform.
AtFastPath ==
    /\ AtGobStep
    /\ IsBlockLinear(call.fn)
    /\ TakesFastPath

\* The number of copies of the rows of a GOB.
RECURSIVE CopyCount(_, _)
CopyCount(rows, i) == IF i > Len(rows) THEN 0 ELSE Len(rows[i]) + CopyCount(rows, i + 1)

\* C25 as stated: for each complete GOB the fast path transfers 8x16 = 128
\* bytes in 8 groups of 16; the rows start at GOB byte offsets 0, 16, 64, 80,
\* 128, 144, 192, 208 and each row transfers one 16-byte half at offset 0 and a
\* second 16-byte half at offset 256 relative to its row offset.
C25_TransferShape_AsStated ==
    AtFastPath =>
        /\ MovedCount(FastPathCopies, 1, 1) = 128
        /\ CopyCount(FastPathCopies, 1) = 8
        /\ \A i \in 1 .. GOB_HEIGHT_IN_BYTES :
              LET start == <<0, 16, 64, 80, 128, 144, 192, 208>>[i]
              IN  /\ {c.swz : c \in {FastPathCopies[i][j] : j \in DOMAIN FastPathCopies[i]}}
                        = {start, start + 256}
                  /\ \A j \in DOMAIN FastPathCopies[i] : FastPathCopies[i][j].n = 16

\* C25: for each complete GOB the fast path transfers 8x64 = 512 bytes in 32
\* groups of 16, four per row; the rows start at GOB byte offsets 0, 16, 64,
\* 80, 128, 144, 192, 208 and at multiples of the row size on the linear side;
\* the 16-byte quarters at bytes 0, 16, 32 and 48 of a linear row go to the
\* offsets 0, 32, 256 and 288 relative to the row offset in the GOB.
C25_TransferShape ==
    AtFastPath =>
        /\ Len(FastPathCopies) = GOB_HEIGHT_IN_BYTES
        /\ MovedCount(FastPathCopies, 1, 1) = 512
        /\ CopyCount(FastPathCopies, 1) = 32
        /\ \A i \in 1 .. GOB_HEIGHT_IN_BYTES :
              LET start == <<0, 16, 64, 80, 128, 144, 192, 208>>[i]
                  row == call.width * call.bytes_per_pixel * (i - 1)
              IN  /\ Len(FastPathCopies[i]) = 4
                  /\ {<<c.lin - row, c.swz - start, c.n>> :
                         c \in {FastPathCopies[i][j] : j \in DOMAIN FastPathCopies[i]}}
                        = {<<0, 0, 16>>, <<16, 32, 16>>, <<32, 256, 16>>, <<48, 288, 16>>}

\* deswizzle_block_linear is about to take the fast path for the first GOB of
\* a surface.
C25_Witness ==
    /\ AtFastPath
    /\ call.fn = "deswizzle_block_linear"
    /\ gob = 1
    /\ stage = 1

\* a ^ b, bit by bit
RECURSIVE BitXor(_, _)
BitXor(a, b) ==
    IF a = 0 THEN b
    ELSE IF b = 0 THEN a
    ELSE ((a + b) % 2) + 2 * BitXor(a \div 2, b \div 2)

IsPowerOfTwo(n) == n \in {2^k : k \in 0 .. WordBits}

\* The four terms of the address have pairwise disjoint bit patterns, and
\* their XOR is their sum.
TermsAreDisjoint(a) ==
    /\ BitAnd(a.offset_z, a.offset_y) = 0
    /\ BitAnd(a.offset_z, a.offset_x) = 0
    /\ BitAnd(a.offset_z, a.gob_offset) = 0
    /\ BitAnd(a.offset_y, a.offset_x) = 0
    /\ BitAnd(a.offset_y, a.gob_offset) = 0
    /\ BitAnd(a.offset_x, a.gob_offset) = 0
    /\ BitXor(BitXor(a.offset_z, a.offset_y), BitXor(a.offset_x, a.gob_offset))
           = a.offset_z + a.offset_y + a.offset_x + a.gob_offset

\* C26 as stated: for every in-range byte coordinate of every mip shape the
\* bit patterns of gob_address_z, gob_address_y, gob_address_x and gob_offset
\* are pairwise disjoint, so that their XOR equals their sum, for every width
\* in GOBs.
C26_DisjointTerms_AsStated ==
    (pc = "done" /\ call.fn = "swizzle_inner" /\ result.tag = "address") =>
        TermsAreDisjoint(result)

\* C26: gob_offset is below the GOB size and the three GOB address terms are
\* multiples of it, so gob_offset never shares a bit with them and the address
\* is their sum; the four terms are pairwise disjoint, and their XOR is their
\* sum, when the width in GOBs is a power of two and the height in blocks is a
\* power of two or the mip level has a single block of slices.
C26_DisjointTerms ==
    (pc = "done" /\ call.fn = "swizzle_inner" /\ result.tag = "address") =>
        /\ result.gob_offset < GOB_SIZE_IN_BYTES
        /\ result.offset_z % GOB_SIZE_IN_BYTES = 0
        /\ result.offset_y % GOB_SIZE_IN_BYTES = 0
        /\ result.offset_x % GOB_SIZE_IN_BYTES = 0
        /\ BitAnd(result.offset_z, result.gob_offset) = 0
        /\ BitAnd(result.offset_y, result.gob_offset) = 0
        /\ BitAnd(result.offset_x, result.gob_offset) = 0
        /\ result.swizzled_offset
               = result.offset_z + result.offset_y + result.offset_x + result.gob_offset
        /\ (/\ IsPowerOfTwo(width_in_gobs(call.width, call.bytes_per_pixel))
            /\ \/ IsPowerOfTwo(height_in_blocks(call.height, call.block_height))
               \/ call.depth <= call.block_depth)
           => TermsAreDisjoint(result)

\* A byte of a mip level three GOBs wide whose gob_address_y and
\* gob_address_x share a bit: the address is the sum of the terms and not
\* their XOR.
C26_Witness ==
    /\ pc = "done"
    /\ call.fn = "swizzle_inner"
    /\ result.tag = "address"
    /\ width_in_gobs(call.width, call.bytes_per_pixel) = 3
    /\ call.depth = 1
    /\ BitAnd(result.offset_y, result.offset_x) # 0
    /\ BitXor(BitXor(result.offset_z, result.offset_y),
              BitXor(result.offset_x, result.gob_offset)) # result.swizzled_offset
    /\ BitAnd(result.offset_x + result.offset_y, result.gob_offset) = 0

\* The block height of the alignment: block_height_mip0 halved while
\* height <= (gob_height / 2) * 8 and gob_height > 1.
RECURSIVE AlignedGobHeight(_, _)
AlignedGobHeight(height, gob_height) ==
    IF gob_height > 1 /\ height <= (gob_height \div 2) * 8
    THEN AlignedGobHeight(height, gob_height \div 2)
    ELSE gob_height

\* The block depth of the alignment: depth_in_gobs halved while
\* depth <= gob_depth / 2 and gob_depth > 1.
RECURSIVE AlignedGobDepth(_, _)
AlignedGobDepth(depth, gob_depth) ==
    IF gob_depth > 1 /\ depth <= gob_depth \div 2
    THEN AlignedGobDepth(depth, gob_depth \div 2)
    ELSE gob_depth

\* C27: align_layer_size(size, height, depth, block_height_mip0,
\* depth_in_gobs) is size rounded up to a multiple of
\* B = gob_height * gob_depth * 512 for the halved gob_height and gob_depth:
\* the smallest multiple of B that is at least size (result - size < B), a
\* multiple of B is returned unchanged, and aligning the result again returns
\* it.
C27_AlignLayerSize ==
    (pc = "done" /\ call.fn = "align_layer_size") =>
        LET B == AlignedGobHeight(call.height, call.block_height_mip0)
                    * AlignedGobDepth(call.depth, call.depth_in_gobs) * 512
            size == call.layer_size
        IN  /\ result.tag = "value"
            /\ result.value % B = 0
            /\ result.value >= size
            /\ result.value - size < B
            /\ result.value = ((size + B - 1) \div B) * B
            /\ size % B = 0 => result.value = size
            /\ align_layer_size(result.value, call.height, call.depth,
                                call.block_height_mip0, call.depth_in_gobs) = result.value

\* A size of two blocks of GOBs and one byte, for a block height halved from
\* 16 to 2 and a block depth halved from 16 to 4: three blocks are returned.
C27_Witness ==
    /\ pc = "done"
    /\ call.fn = "align_layer_size"
    /\ call.block_height_mip0 = 16
    /\ call.height = 9
    /\ call.depth_in_gobs = 16
    /\ call.depth = 3
    /\ call.layer_size = 2 * (2 * 4 * 512) + 1
    /\ result = Returned(3 * (2 * 4 * 512))

\* The mask of gob_address_z is the remainder: z & (block_depth - 1) is
\* z mod block_depth, for the slices up to MaxBlockRows.
MaskIsRemainder(block_depth_) ==
    \A z \in 0 .. MaxBlockRows : BitAnd(z, block_depth_ - 1) = z % block_depth_

\* C29: block_depth(d) is one of 1, 2, 4, 8, 16 for every d and 1 for d <= 1;
\* mip_block_depth returns a power of two that is at most the block depth of
\* mip 0 it is given; so the mask z & (block_depth - 1) of swizzle_inner is
\* z mod block_depth. Where depth + depth / 2 exceeds the word a build with
\* overflow checks panics and returns no block depth.
C29_BlockDepth ==
    /\ (pc = "done" /\ call.fn = "block_depth") =>
          IF overflow_checks /\ call.depth + (call.depth \div 2) > U32_MAX
          THEN result = Panic
          ELSE /\ result.tag = "value"
               /\ result.value \in {1, 2, 4, 8, 16}
               /\ call.depth <= 1 => result.value = 1
               /\ MaskIsRemainder(result.value)
    /\ (pc = "done" /\ call.fn = "mip_block_depth") =>
          /\ result.tag = "value"
          /\ result.value \in {1, 2, 4, 8, 16}
          /\ result.value <= call.block_depth_mip0
          /\ MaskIsRemainder(result.value)

\* The block depth of a mip level of depth 3 of a surface whose mip 0 has the
\* block depth 16 is 4.
C29_Witness ==
    /\ pc = "done"
    /\ call.fn = "mip_block_depth"
    /\ call.mip_depth = 3
    /\ call.block_depth_mip0 = 16
    /\ result = Returned(4)

\* C28: after surface_destination succeeded, at every (layer, mip) step of
\* swizzle_surface_inner the source offset plus the size of the mip level on
\* the source side is at most the length of the source and the destination
\* offset plus the size on the destination side is at most the length of the
\* result, so that the NotEnoughData branch of swizzle_mipmap is never taken
\* and the slices at the offsets exist; after the last layer the destination
\* offset is the length of the result.
C28_OffsetInvariant ==
    (IsSurface(call.fn) /\ destination # NoBuf /\ ~ SomeCountIsZero(call)) =>
        /\ (pc \in {"mip", "gob"} /\ mip < call.mipmap_count) =>
              LET p == Cur(call, mip, src_offset, dst_offset)
                  source_side == IF IsDeswizzle(call.fn)
                                 THEN swizzled_mip_size(p.width, p.height, p.depth,
                                                        p.block_height, p.bytes_per_pixel)
                                 ELSE deswizzled_mip_size(p.width, p.height, p.depth,
                                                          p.bytes_per_pixel)
                  destination_side == IF IsDeswizzle(call.fn)
                                      THEN deswizzled_mip_size(p.width, p.height, p.depth,
                                                               p.bytes_per_pixel)
                                      ELSE swizzled_mip_size(p.width, p.height, p.depth,
                                                             p.block_height,
                                                             p.bytes_per_pixel)
              IN  /\ src_offset + source_side <= source.len
                  /\ dst_offset + destination_side <= destination.len
        /\ pc \in {"mip", "gob", "return"} =>
              /\ src_offset <= source.len
              /\ dst_offset <= destination.len
        /\ pc = "return" => dst_offset = destination.len
        /\ pc = "done" => result.tag # "NotEnoughData"

\* deswizzle_surface returned the result of a surface of several layers and
\* mip levels whose source is one byte longer than needed.
C28_Witness ==
    /\ pc = "done"
    /\ call.fn = "deswizzle_surface"
    /\ stage = 1
    /\ call.layer_count = MaxLayers
    /\ call.mipmap_count = MaxMips
    /\ result = Ok
    /\ source.len = ExpectedSize(call) + 1
    /\ dst_offset = destination.len
    /\ src_offset < source.len
    /\ destination.len > 0

\* C30: the C API functions swizzle_block_linear and deswizzle_block_linear
\* write exactly the bytes that the Rust functions of the same name return
\* for the same parameters, for every depth.
C30_FfiEquivalence ==
    (pc = "done" /\ stage = 2 /\ IsFfi(call.fn)) =>
        /\ result = Ok
        /\ BufEq(destination, original)

\* C30 for the depths that are their own block depth (1, 2, 4, 8, 16).
C30_FfiEquivalence_ForBlockDepths ==
    (pc = "done" /\ stage = 2 /\ IsFfi(call.fn) /\ block_depth(call.depth) = call.depth)
        => C30_FfiEquivalence
=============================================================================
